---------------------------- MODULE Spec2Model ----------------------------
(***************************************************************************)
(* Model of the STX WhatsApp payment bot: the conversation state store,    *)
(* the webhook dispatcher and the registration, payment and escrow         *)
(* handlers.                                                               *)
(*                                                                         *)
(* Modelling conventions                                                   *)
(*  - A JavaScript object is a TLA+ function from property names to        *)
(*    values; reading a property an object does not have yields Undefined  *)
(*    (operator Get), exactly as obj.prop does.                            *)
(*  - A service identifier (stateService, userService, ...) denotes the    *)
(*    service object its module instantiates, and a service's database     *)
(*    handle denotes the Record Store; how the handle is obtained is not   *)
(*    modelled.  All application data (arguments, results, fields) is      *)
(*    passed exactly as the code passes it.                                *)
(*  - Time is counted in minutes.                                          *)
(***************************************************************************)
EXTENDS Integers, Sequences, FiniteSets, TLC

(***************************************************************************)
(* Bounds                                                                  *)
(***************************************************************************)
MaxTime == 12
TickMinutes == 6
MaxMessages == 2
MaxEscrows == 1
MaxTransactions == 2
MaxDigits == 2

(***************************************************************************)
(* Program constants                                                       *)
(***************************************************************************)
TTL_MINUTES == 10

U1 == "+2349000000001"
U2 == "+2349000000002"
Phones == {U1, U2}
Procs == {"p1", "p2"}
StateTypes == {"registration", "payment", "escrow"}

Undefined == "undefined"
None == "none"

\* JavaScript property read: obj.key
Get(obj, key) == IF key \in DOMAIN obj THEN obj[key] ELSE Undefined

\* Object spread written the wrong way round, {...b, ...a}: keys of a win
Spread_OldWins(a, b) == [k \in (DOMAIN a) \cup (DOMAIN b) |-> IF k \in DOMAIN a THEN a[k] ELSE b[k]]

\* Object spread {...a, ...b}: keys of b override keys of a
Spread(a, b) == [k \in (DOMAIN a) \cup (DOMAIN b) |-> IF k \in DOMAIN b THEN b[k] ELSE a[k]]

\* Payloads handed to the state store by its direct callers
SetPayloads == {[step |-> 1], [step |-> 2]}
UpdatePayloads == {[step |-> 2], [amount |-> 1]}
\* (phoneNumber, stateType, stateData) of the direct setState calls
SetInputs == ({U1} \X {"registration", "payment"} \X SetPayloads)
             \cup {<<U2, "registration", [step |-> 1]>>}
\* (phoneNumber, newData) of the direct updateStateData calls
UpdateInputs == {U1} \X UpdatePayloads

VARIABLES
    now,                \* wall clock, minutes
    conversation_states,\* table conversation_states: set of rows
    pc,                 \* per process: position inside a state-store call
    local,              \* per process: locals of the call in progress
    ret,                \* result of the last completed getState or updateStateData call
    users,              \* table users: set of rows
    contacts,           \* table contacts: set of rows
    transactions,       \* table transactions: set of rows
    escrows,            \* table escrows: set of rows
    contract,           \* the escrow contract on chain: its data var, map and STX
    ledger,             \* tx_status the Ledger reports for the transactions it mined
    inv                 \* the last webhook or registration invocation and what it did

storeVars == <<conversation_states, pc, local, ret>>
appVars == <<users, contacts, transactions, escrows, contract, ledger, inv>>
vars == <<now, conversation_states, pc, local, ret, users, contacts, transactions, escrows,
          contract, ledger, inv>>

(***************************************************************************)
(* Record Store: table conversation_states, unique on phone_number         *)
(***************************************************************************)
RowsOf(tbl, phoneNumber) == {r \in tbl : r.phone_number = phoneNumber}

\* Upsert without its conflict target: a plain insert
Upsert_PlainInsert(tbl, phoneNumber, stateType, stateData, expiresAt, t) ==
    tbl \cup {[phone_number |-> phoneNumber, state_type |-> stateType,
               state_data |-> stateData, created_at |-> t, expires_at |-> expiresAt]}

\* .upsert({...}, {onConflict: 'phone_number'}): on conflict the listed
\* columns are overwritten and created_at keeps its value; otherwise the
\* row is inserted with created_at defaulting to the current time.
Upsert(tbl, phoneNumber, stateType, stateData, expiresAt, t) ==
    IF RowsOf(tbl, phoneNumber) # {}
    THEN (tbl \ RowsOf(tbl, phoneNumber)) \cup
         {[r EXCEPT !.state_type = stateType, !.state_data = stateData,
                    !.expires_at = expiresAt] : r \in RowsOf(tbl, phoneNumber)}
    ELSE tbl \cup {[phone_number |-> phoneNumber, state_type |-> stateType,
                    state_data |-> stateData, created_at |-> t,
                    expires_at |-> expiresAt]}

\* SelectActive without the expires_at filter
SelectActive_NoExpiryFilter(tbl, phoneNumber, t) == RowsOf(tbl, phoneNumber)

\* .select('*').eq('phone_number', p).gt('expires_at', now)
SelectActive(tbl, phoneNumber, t) == {r \in RowsOf(tbl, phoneNumber) : r.expires_at > t}

\* .delete().eq('phone_number', p)
DeleteRows(tbl, phoneNumber) == tbl \ RowsOf(tbl, phoneNumber)

(***************************************************************************)
(* StateService                                                            *)
(***************************************************************************)
\* setState(phoneNumber, stateType, stateData): the table after the upsert
setState(tbl, phoneNumber, stateType, stateData, t) ==
    Upsert(tbl, phoneNumber, stateType, stateData, t + TTL_MINUTES, t)

\* getState(phoneNumber): {success, state} or {success, error}; .single()
\* fails with PGRST116 unless exactly one row is selected
getState(tbl, phoneNumber, t) ==
    LET rows == SelectActive(tbl, phoneNumber, t) IN
    IF Cardinality(rows) = 1
    THEN LET data == CHOOSE r \in rows : TRUE IN
         [success |-> TRUE,
          state |-> [phoneNumber |-> data.phone_number,
                     stateType |-> data.state_type,
                     stateData |-> data.state_data,
                     createdAt |-> data.created_at,
                     expiresAt |-> data.expires_at]]
    ELSE [success |-> FALSE, error |-> "No active state found"]

\* clearState(phoneNumber): the table after the delete
clearState(tbl, phoneNumber) == DeleteRows(tbl, phoneNumber)

\* hasActiveState(phoneNumber)
hasActiveState(tbl, phoneNumber, t) == getState(tbl, phoneNumber, t).success

\* getStateType(phoneNumber)
getStateType(tbl, phoneNumber, t) ==
    LET result == getState(tbl, phoneNumber, t) IN
    IF result.success THEN result.state.stateType ELSE None

(***************************************************************************)
(* Text: a message is the sequence of its whitespace-separated words       *)
(***************************************************************************)
A1 == "SP2J6ZY48GV1EZ5V2V5RB9MP66SW86PYKKNRV9EJ7"
A2 == "SP3FBR2AGK5H9QBDH3EEN6DF8EK8JY7RX8QJ5SVTE"
AShort == "SP2J6ZY48GV1EZ5V2V5RB9MP66SW86PYKKNRV9EJ"
ATest == "ST2J6ZY48GV1EZ5V2V5RB9MP66SW86PYKKNRV9EJ7"

\* String.prototype.toLowerCase on the words of the vocabulary
LowerCase ==
    [w \in {"YES", "NO", "John", "JOHN", "Joan", "Hours", "DAYS", A1, A2, AShort, ATest} |->
        CASE w = "YES" -> "yes"
          [] w = "JOHN" -> "john"
          [] w = "Joan" -> "joan"
          [] w = "NO" -> "no"
          [] w = "Hours" -> "hours"
          [] w = "DAYS" -> "days"
          [] w = "John" -> "john"
          [] w = A1 -> "sp2j6zy48gv1ez5v2v5rb9mp66sw86pykknrv9ej7"
          [] w = A2 -> "sp3fbr2agk5h9qbdh3een6df8ek8jy7rx8qj5svte"
          [] w = AShort -> "sp2j6zy48gv1ez5v2v5rb9mp66sw86pykknrv9ej"
          [] w = ATest -> "st2j6zy48gv1ez5v2v5rb9mp66sw86pykknrv9ej7"]

toLowerCase(w) == IF w \in DOMAIN LowerCase THEN LowerCase[w] ELSE w

\* message.toLowerCase().trim()
Normalize(message) == [i \in 1..Len(message) |-> toLowerCase(message[i])]

\* the words of the vocabulary that properly extend another word
ProperPrefixes == {<<"escrow", "escrows">>, <<"contact", "contacts">>, <<"hour", "hours">>}

\* word.startsWith(prefix)
WordStartsWith(word, prefix) == word = prefix \/ <<prefix, word>> \in ProperPrefixes

\* text.startsWith(prefix), prefix given as its words
StartsWith(text, prefix) ==
    /\ Len(text) >= Len(prefix)
    /\ \A i \in 1..(Len(prefix) - 1) : text[i] = prefix[i]
    /\ WordStartsWith(text[Len(prefix)], prefix[Len(prefix)])

\* text.includes(phrase), phrase given as its words
Includes(text, phrase) ==
    \E k \in 0..(Len(text) - Len(phrase)) :
        /\ \A i \in 1..(Len(phrase) - 1) : text[k + i] = phrase[i]
        /\ WordStartsWith(text[k + Len(phrase)], phrase[Len(phrase)])

\* parseFloat / parseInt on the numerals of the vocabulary
NumberValue == [w \in {"0", "5", "24"} |-> CASE w = "0" -> 0 [] w = "5" -> 5 [] w = "24" -> 24]

\* #?(\d+) on the escrow references of the vocabulary
EscrowRef == [w \in {"#0", "#1", "1"} |-> IF w = "#0" THEN 0 ELSE 1]

\* length, two-character prefix and character class of the rest of a word
Shape(w) ==
    CASE w \in {A1, A2} -> [length |-> 41, prefix |-> "SP", upperAlnum |-> TRUE]
      [] w = AShort -> [length |-> 40, prefix |-> "SP", upperAlnum |-> TRUE]
      [] w = ATest -> [length |-> 41, prefix |-> "ST", upperAlnum |-> TRUE]
      [] OTHER -> [length |-> 4, prefix |-> "Jo", upperAlnum |-> FALSE]

(***************************************************************************)
(* validator.js                                                            *)
(***************************************************************************)
\* validatePhone(phone): /^\+234\d{10}$/
validatePhone(phone) == phone \in {"+2349000000001", "+2349000000002"}

\* validateStxAddress without its length check
validateStxAddress_AnyLength(address) ==
    /\ Shape(address).prefix \in {"SP", "ST"}
    /\ Shape(address).upperAlnum

\* validateStxAddress(address).valid
validateStxAddress(address) ==
    /\ Shape(address).length = 41
    /\ Shape(address).prefix \in {"SP", "ST"}
    /\ Shape(address).upperAlnum

(***************************************************************************)
(* StacksService (network mainnet)                                         *)
(***************************************************************************)
\* isValidAddress(address): /^SP[0-9A-Z]{38,41}$/
isValidAddress(address) ==
    /\ Shape(address).prefix = "SP"
    /\ Shape(address).upperAlnum
    /\ Shape(address).length - 2 \in 38..41

MICRO_PER_STX == 1000000

\* stxToMicroStx(stx) for whole STX amounts
stxToMicroStx(stx) == stx * MICRO_PER_STX

\* estimateFee().medium, in microSTX
MediumFee == 250

\* balances the Ledger reports, in microSTX; a request for anything that is
\* not an account address fails
LedgerBalance == [a \in {A1, A2} |-> 100 * MICRO_PER_STX]

\* getBalance(address) returns (TRUE) or throws (FALSE)
getBalanceSucceeds(address) == address \in DOMAIN LedgerBalance

(***************************************************************************)
(* UserService                                                             *)
(***************************************************************************)
\* mapToUser(data)
mapToUser(data) == [phoneNumber |-> data.phone_number, stxAddress |-> data.stx_address]

\* getByPhone(phoneNumber): {success, user} or {success, error}
getByPhone(us, phoneNumber) ==
    LET rows == {r \in us : r.phone_number = phoneNumber} IN
    IF Cardinality(rows) = 1
    THEN [success |-> TRUE, user |-> mapToUser(CHOOSE r \in rows : TRUE)]
    ELSE [success |-> FALSE, error |-> "User not found"]

\* exists that never finds the user
exists_Never(us, phoneNumber) == FALSE

\* exists(phoneNumber)
exists(us, phoneNumber) == Cardinality({r \in us : r.phone_number = phoneNumber}) = 1

\* addressExists that never finds the address
addressExists_Never(us, stxAddress) == FALSE

\* addressExists(stxAddress)
addressExists(us, stxAddress) == Cardinality({r \in us : r.stx_address = stxAddress}) = 1

\* unique index on users.stx_address: the address is held by a row of
\* another phone number, so writing it for phoneNumber is rejected (23505)
StxAddressTaken(us, phoneNumber, stxAddress) ==
    \E r \in us : r.stx_address = stxAddress /\ r.phone_number # phoneNumber

\* create({phoneNumber, stxAddress}): the insert succeeds unless a unique
\* constraint (phone_number, stx_address) is violated
createSucceeds(us, phoneNumber, stxAddress) ==
    /\ \A r \in us : r.phone_number # phoneNumber
    /\ ~StxAddressTaken(us, phoneNumber, stxAddress)

\* the error create returns for a 23505 violation, by the column it names
createError(us, phoneNumber, stxAddress) ==
    IF \E r \in us : r.phone_number = phoneNumber
    THEN "Phone number already registered"
    ELSE "STX address already registered"

create(us, phoneNumber, stxAddress) ==
    IF createSucceeds(us, phoneNumber, stxAddress)
    THEN us \cup {[phone_number |-> phoneNumber, stx_address |-> stxAddress]}
    ELSE us

\* updateAddress(phoneNumber, newStxAddress): .update().eq().select().single()
\* succeeds when the user's row exists and the new address is not taken
updateAddressSucceeds(us, phoneNumber, newStxAddress) ==
    /\ exists(us, phoneNumber)
    /\ ~StxAddressTaken(us, phoneNumber, newStxAddress)

updateAddressError(us, phoneNumber, newStxAddress) ==
    IF StxAddressTaken(us, phoneNumber, newStxAddress)
    THEN "STX address already registered to another user"
    ELSE "no rows"

updateAddress(us, phoneNumber, newStxAddress) ==
    IF updateAddressSucceeds(us, phoneNumber, newStxAddress)
    THEN {IF r.phone_number = phoneNumber
          THEN [r EXCEPT !.stx_address = newStxAddress] ELSE r : r \in us}
    ELSE us

(***************************************************************************)
(* ContactService                                                          *)
(***************************************************************************)
\* normalizeContactName(name): title case
TitleCase == [w \in {"john", "John", "JOHN"} |-> "John"]

\* normalizeContactName without the change of case
normalizeContactName_Identity(name) == name

normalizeContactName(name) == IF name \in DOMAIN TitleCase THEN TitleCase[name] ELSE name

\* the lower-cased names of the vocabulary that a pattern with a wildcard
\* matches under ILIKE (% any run of characters, _ any one character)
Wildcard == [p \in {"Jo%"} |-> {"john", "joan"}]

\* value ILIKE pattern
ILike(value, pattern) ==
    IF pattern \in DOMAIN Wildcard THEN toLowerCase(value) \in Wildcard[pattern]
    ELSE toLowerCase(value) = toLowerCase(pattern)

\* getContactByName(userPhone, contactName): the rows .single() accepts
getContactByName(ct, userPhone, contactName) ==
    LET rows == {c \in ct : /\ c.user_phone = userPhone
                            /\ ILike(c.contact_name, normalizeContactName(contactName))}
    IN IF Cardinality(rows) = 1 THEN rows ELSE {}

\* the unique index on contacts (user_phone, contact_name) rejects the name
\* for a row other than self
ContactNameTaken(ct, userPhone, contactName, self) ==
    \E c \in ct \ self : c.user_phone = userPhone /\ c.contact_name = contactName

\* insert into contacts: the row, or the set unchanged when the index rejects it
insertContact(ct, userPhone, normalizedName, contactStxAddress) ==
    IF ContactNameTaken(ct, userPhone, normalizedName, {}) THEN ct
    ELSE ct \cup {[user_phone |-> userPhone, contact_name |-> normalizedName,
                   contact_stx_address |-> contactStxAddress, contact_phone |-> None]}

\* updateContact(contactId, updates) with updates.contact_name: the row is
\* renamed, or the set is unchanged when the index rejects the name
updateContact(ct, contact, contactName) ==
    LET normalizedName == normalizeContactName(contactName) IN
    IF contact \notin ct \/ ContactNameTaken(ct, contact.user_phone, normalizedName, {contact})
    THEN ct
    ELSE (ct \ {contact}) \cup {[contact EXCEPT !.contact_name = normalizedName]}

\* deleteContact(contactId)
deleteContact(ct, contact) == ct \ {contact}

\* addContact(userPhone, contactName, contactStxAddress) returns or throws
addContactSucceeds(ct, userPhone, contactName, contactStxAddress) ==
    /\ isValidAddress(contactStxAddress)
    /\ getContactByName(ct, userPhone, normalizeContactName(contactName)) = {}

addContact(ct, userPhone, contactName, contactStxAddress) ==
    IF addContactSucceeds(ct, userPhone, contactName, contactStxAddress)
    THEN insertContact(ct, userPhone, normalizeContactName(contactName), contactStxAddress)
    ELSE ct

\* resolveRecipient(userPhone, nameOrAddress) returns or throws; the input
\* is the sequence of words the command's last group captured
resolveRecipientSucceeds(ct, userPhone, nameOrAddress) ==
    /\ Len(nameOrAddress) = 1
    /\ \/ isValidAddress(nameOrAddress[1])
       \/ getContactByName(ct, userPhone, nameOrAddress[1]) # {}

resolveRecipient(ct, userPhone, nameOrAddress) ==
    IF isValidAddress(nameOrAddress[1])
    THEN [type |-> "address", address |-> nameOrAddress[1], name |-> None,
          isContact |-> FALSE, phone |-> None]
    ELSE LET contact == CHOOSE c \in getContactByName(ct, userPhone, nameOrAddress[1]) : TRUE IN
         [type |-> "contact", address |-> contact.contact_stx_address,
          name |-> contact.contact_name, isContact |-> TRUE,
          phone |-> contact.contact_phone]

(***************************************************************************)
(* Handlers.  A handler works on a world w: the tables it can change and   *)
(* the messages sent so far; it yields the world it leaves and its result. *)
(***************************************************************************)
World(cs, ct, tx, es, chain) ==
    [cs |-> cs, ct |-> ct, tx |-> tx, es |-> es, chain |-> chain, sent |-> <<>>]

\* whatsappService.sendMessage(to, text); kind names the text
sendMessage(w, to, kind) == [w EXCEPT !.sent = Append(@, [to |-> to, kind |-> kind])]

Ok == [success |-> TRUE]
Fail(kind) == [success |-> FALSE, message |-> kind]
NullResult == [null |-> TRUE]

\* value of a handler call: world, result, whether the handler's getState
\* found an active state, whether handleStateFlow was entered
Out(w, result) == [w |-> w, result |-> result, observed |-> FALSE, stateFlow |-> FALSE]

\* a JavaScript string value stored in a JSON column
StringValue(str) == [str |-> str]

\* !value for an object value: every object is truthy
Falsy(obj) == FALSE

(***************************************************************************)
(* The escrow contract (Clarity).  A public function that returns an error *)
(* leaves the contract as it was.  A call yields the contract after the    *)
(* call and the response.                                                  *)
(***************************************************************************)
err_not_found == 101
err_not_authorized == 103
err_invalid_amount == 104
err_timeout_not_reached == 107
err_already_released == 108
err_already_refunded == 109

\* the contract as deployed: escrow-nonce u0, empty map escrows, no STX held,
\* and no STX transferred to anyone yet
Deployed == [nonce |-> 0, escrows |-> <<>>, balance |-> 0, received |-> <<>>]

\* (ok value) and (err code)
Response(c, ok, value) == [contract |-> c, ok |-> ok, value |-> value]

\* stx-transfer? amount tx-sender (as-contract tx-sender): the sender owns
\* the amount
stxTransferSucceeds(amount, sender) ==
    sender \in DOMAIN LedgerBalance /\ amount <= LedgerBalance[sender]

\* (create-escrow recipient amount timeout-blocks memo)
create_escrow(c, txSender, recipient, amount, timeoutBlocks, blockHeight) ==
    LET escrowId == c.nonce
        timeoutHeight == blockHeight + timeoutBlocks
    IN IF ~(amount > 0) THEN Response(c, FALSE, err_invalid_amount)
       ELSE IF ~stxTransferSucceeds(amount, txSender) THEN Response(c, FALSE, 1)
       ELSE Response([nonce |-> c.nonce + 1,
                      escrows |-> (escrowId :> [sender |-> txSender,
                                                recipient |-> recipient,
                                                amount |-> amount,
                                                timeout_height |-> timeoutHeight,
                                                status |-> "active",
                                                created_at |-> blockHeight])
                                  @@ c.escrows,
                      balance |-> c.balance + amount,
                      received |-> c.received],
                     TRUE, escrowId)

\* the STX the contract has transferred to a principal
ReceivedBy(c, principal) ==
    IF principal \in DOMAIN c.received THEN c.received[principal] ELSE 0

\* (as-contract (stx-transfer? amount tx-sender payee))
Transfer(c, payee, amount) ==
    [c EXCEPT !.balance = @ - amount,
              !.received = (payee :> (ReceivedBy(c, payee) + amount)) @@ @]

\* the amount leaves and the status stays as it was
Settle_KeepsStatus(c, escrowId, status) ==
    Transfer(c, IF status = "released" THEN c.escrows[escrowId].recipient
                ELSE c.escrows[escrowId].sender, c.escrows[escrowId].amount)

\* the amount goes to the caller's counterparty
Settle_PaysOtherParty(c, escrowId, status) ==
    Transfer([c EXCEPT !.escrows[escrowId].status = status],
             IF status = "released" THEN c.escrows[escrowId].sender
             ELSE c.escrows[escrowId].recipient, c.escrows[escrowId].amount)

\* the contract after the escrow's status is set and its amount has been
\* transferred: to the recipient on release, to the sender on refund and cancel
Settle(c, escrowId, status) ==
    Transfer([c EXCEPT !.escrows[escrowId].status = status],
             IF status = "released" THEN c.escrows[escrowId].recipient
             ELSE c.escrows[escrowId].sender, c.escrows[escrowId].amount)

\* release-escrow with the status test left out
release_escrow_NoStatusCheck(c, txSender, escrowId) ==
    IF escrowId \notin DOMAIN c.escrows THEN Response(c, FALSE, err_not_found)
    ELSE IF txSender \notin {c.escrows[escrowId].sender, c.escrows[escrowId].recipient}
    THEN Response(c, FALSE, err_not_authorized)
    ELSE Response(Settle(c, escrowId, "released"), TRUE, 1)

\* (release-escrow escrow-id)
release_escrow(c, txSender, escrowId) ==
    IF escrowId \notin DOMAIN c.escrows THEN Response(c, FALSE, err_not_found)
    ELSE IF txSender \notin {c.escrows[escrowId].sender, c.escrows[escrowId].recipient}
    THEN Response(c, FALSE, err_not_authorized)
    ELSE IF c.escrows[escrowId].status # "active"
    THEN Response(c, FALSE, err_already_released)
    ELSE Response(Settle(c, escrowId, "released"), TRUE, 1)

\* refund-escrow with the timeout test left out
refund_escrow_NoTimeoutCheck(c, txSender, escrowId, blockHeight) ==
    IF escrowId \notin DOMAIN c.escrows THEN Response(c, FALSE, err_not_found)
    ELSE IF txSender # c.escrows[escrowId].sender THEN Response(c, FALSE, err_not_authorized)
    ELSE IF c.escrows[escrowId].status # "active"
    THEN Response(c, FALSE, err_already_refunded)
    ELSE Response(Settle(c, escrowId, "refunded"), TRUE, 1)

\* (refund-escrow escrow-id)
refund_escrow(c, txSender, escrowId, blockHeight) ==
    IF escrowId \notin DOMAIN c.escrows THEN Response(c, FALSE, err_not_found)
    ELSE IF txSender # c.escrows[escrowId].sender THEN Response(c, FALSE, err_not_authorized)
    ELSE IF c.escrows[escrowId].status # "active"
    THEN Response(c, FALSE, err_already_refunded)
    ELSE IF ~(blockHeight >= c.escrows[escrowId].timeout_height)
    THEN Response(c, FALSE, err_timeout_not_reached)
    ELSE Response(Settle(c, escrowId, "refunded"), TRUE, 1)

\* cancel-escrow with the sender test left out
cancel_escrow_AnyCaller(c, txSender, escrowId) ==
    IF escrowId \notin DOMAIN c.escrows THEN Response(c, FALSE, err_not_found)
    ELSE IF c.escrows[escrowId].status # "active"
    THEN Response(c, FALSE, err_already_released)
    ELSE Response(Settle(c, escrowId, "cancelled"), TRUE, 1)

\* (cancel-escrow escrow-id)
cancel_escrow(c, txSender, escrowId) ==
    IF escrowId \notin DOMAIN c.escrows THEN Response(c, FALSE, err_not_found)
    ELSE IF txSender # c.escrows[escrowId].sender THEN Response(c, FALSE, err_not_authorized)
    ELSE IF c.escrows[escrowId].status # "active"
    THEN Response(c, FALSE, err_already_released)
    ELSE Response(Settle(c, escrowId, "cancelled"), TRUE, 1)

\* (can-refund escrow-id): (ok bool); for an unknown id an error response
can_refund(c, escrowId, blockHeight) ==
    IF escrowId \notin DOMAIN c.escrows THEN Response(c, FALSE, err_not_found)
    ELSE Response(c, TRUE,
                  IF /\ c.escrows[escrowId].status = "active"
                     /\ blockHeight >= c.escrows[escrowId].timeout_height
                  THEN 1 ELSE 0)

(***************************************************************************)
(* TransactionService and EscrowService, as far as the handlers use them   *)
(***************************************************************************)
\* sendTransaction({...}): broadcast, then recordTransaction with status pending
sendTransaction(tx, senderPhone, recipientAddress, amountMicroStx) ==
    tx \cup {[sender_phone |-> senderPhone, recipient_stx_address |-> recipientAddress,
              amount_microstx |-> amountMicroStx, status |-> "pending",
              tx_id |-> Cardinality(tx) + 1]}

\* getTransactionStatus(txId): tx_status of the Ledger; a transaction the
\* Ledger has not mined reads as pending
getTransactionStatus(l, txId) ==
    LET status == IF txId \in DOMAIN l THEN l[txId] ELSE "pending" IN
    [status |-> status,
     confirmed |-> status = "success",
     pending |-> status = "pending",
     failed |-> status \in {"abort_by_response", "abort_by_post_condition"}]

\* waitForConfirmation(txId, 60, 10000): the first answer that is confirmed or
\* failed, or the timeout
waitForConfirmation(l, txId) ==
    LET status == getTransactionStatus(l, txId) IN
    [confirmed |-> status.confirmed, failed |-> status.failed,
     timeout |-> ~status.confirmed /\ ~status.failed]

\* updateTransactionStatus(txId, status, blockHeight): .update(...).eq('tx_id',
\* txId).select().single() returns one row or throws
updateTransactionStatusSucceeds(tx, txId) ==
    Cardinality({r \in tx : r.tx_id = txId}) = 1

updateTransactionStatus(tx, txId, status) ==
    {IF r.tx_id = txId THEN [r EXCEPT !.status = status] ELSE r : r \in tx}

\* monitorTransaction(txId): waits, then writes what the Ledger answered
monitorTransaction(tx, l, txId) ==
    LET result == waitForConfirmation(l, txId) IN
    IF result.confirmed
    THEN [tx |-> updateTransactionStatus(tx, txId, "confirmed"),
          success |-> updateTransactionStatusSucceeds(tx, txId), status |-> "confirmed"]
    ELSE IF result.failed
    THEN [tx |-> updateTransactionStatus(tx, txId, "failed"),
          success |-> FALSE, status |-> "failed"]
    ELSE [tx |-> tx, success |-> FALSE, status |-> "pending"]

\* checkPendingTransactions(): every row with status pending gets the status
\* the Ledger answers, if that is confirmed or failed
checkPendingTransactions(tx, l) ==
    {IF r.status = "pending" /\ getTransactionStatus(l, r.tx_id).confirmed
     THEN [r EXCEPT !.status = "confirmed"]
     ELSE IF r.status = "pending" /\ getTransactionStatus(l, r.tx_id).failed
     THEN [r EXCEPT !.status = "failed"]
     ELSE r : r \in tx}

\* getTransactionsByPhone(phoneNumber, 'all')
getTransactionsByPhone(tx, phoneNumber) == {r \in tx : r.sender_phone = phoneNumber}

\* getEscrowsByPhone(phoneNumber, role)
getEscrowsByPhone(es, phoneNumber, role) ==
    {e \in es : \/ role # "recipient" /\ e.sender_phone = phoneNumber
                \/ role # "sender" /\ e.recipient_phone = phoneNumber}

\* one block is about ten minutes
BLOCK_MINUTES == 10
BlockHeight(t) == t \div BLOCK_MINUTES

\* contract_escrow_id: escrowData.contractEscrowId || null
NULL == 0 - 1

\* saveEscrowToDatabase(escrowData): the record keeps the contractEscrowId of
\* escrowData unless it is missing or 0, for which || stores null
saveEscrowToDatabase(es, contractEscrowId, senderPhone, recipientAddress, recipientPhone, amountMicroStx, timeoutBlocks, status) ==
    es \cup {[id |-> Cardinality(es) + 1,
              contract_escrow_id |-> IF contractEscrowId = 0 THEN NULL ELSE contractEscrowId,
              sender_phone |-> senderPhone, recipient_phone |-> recipientPhone,
              recipient_stx_address |-> recipientAddress,
              amount_microstx |-> amountMicroStx, timeout_blocks |-> timeoutBlocks,
              status |-> status]}

\* the answer of an EscrowService call: the table, the contract, returned or thrown
Served(es, c, success) == [es |-> es, chain |-> c, success |-> success]

\* createEscrow(...): validation, broadcast of create-escrow, then
\* saveEscrowToDatabase with status 'pending'
createEscrow(es, c, senderAddress, recipientAddress, amountMicroStx, timeoutBlocks, senderPhone, recipientPhone, t) ==
    IF ~isValidAddress(senderAddress) \/ ~isValidAddress(recipientAddress)
       \/ amountMicroStx <= 0
    THEN Served(es, c, FALSE)
    ELSE Served(saveEscrowToDatabase(es, NULL, senderPhone, recipientAddress,
                                     recipientPhone, amountMicroStx, timeoutBlocks,
                                     "pending"),
                create_escrow(c, senderAddress, recipientAddress, amountMicroStx,
                              timeoutBlocks, BlockHeight(t)).contract,
                TRUE)

\* createEscrow's result.escrowId: escrowRecord.id, the database id of the
\* record it saved (NULL when it threw before saving)
createdEscrowId(es, served) ==
    IF served.es = es THEN NULL ELSE (CHOOSE e \in served.es \ es : TRUE).id

\* escrows.find(e => e.contract_escrow_id === escrowId) on getEscrowsByPhone:
\* the records a command with that id is about
findEscrow(es, phoneNumber, escrowId) ==
    {e \in getEscrowsByPhone(es, phoneNumber, "all") : e.contract_escrow_id = escrowId}

\* updateEscrowStatus(contractEscrowId, status, txId): .update(...).eq(
\* 'contract_escrow_id', contractEscrowId).select().single() returns one row or throws
updateEscrowStatusSucceeds(es, escrowId) ==
    Cardinality({e \in es : e.contract_escrow_id = escrowId}) = 1

updateEscrowStatus(es, escrowId, status) ==
    {IF e.contract_escrow_id = escrowId THEN [e EXCEPT !.status = status] ELSE e : e \in es}

\* canRefund(escrowId): cvToJSON(can-refund).value.value, a boolean for a known
\* escrow and the error's inner value, an object, for an unknown one
canRefund(c, escrowId, t) ==
    LET r == can_refund(c, escrowId, BlockHeight(t)) IN
    IF r.ok THEN r.value = 1 ELSE TRUE

\* releaseEscrow(contractEscrowId, callerAddress, callerKey): broadcast of
\* release-escrow, then updateEscrowStatus whatever the contract answered
releaseEscrow(es, c, contractEscrowId, callerAddress) ==
    IF ~getBalanceSucceeds(callerAddress) THEN Served(es, c, FALSE)
    ELSE Served(updateEscrowStatus(es, contractEscrowId, "released"),
                release_escrow(c, callerAddress, contractEscrowId).contract,
                updateEscrowStatusSucceeds(es, contractEscrowId))

\* refundEscrow(contractEscrowId, senderAddress, senderKey)
refundEscrow(es, c, contractEscrowId, senderAddress, t) ==
    IF ~canRefund(c, contractEscrowId, t) \/ ~getBalanceSucceeds(senderAddress)
    THEN Served(es, c, FALSE)
    ELSE Served(updateEscrowStatus(es, contractEscrowId, "refunded"),
                refund_escrow(c, senderAddress, contractEscrowId, BlockHeight(t)).contract,
                updateEscrowStatusSucceeds(es, contractEscrowId))

\* cancelEscrow(contractEscrowId, senderAddress, senderKey)
cancelEscrow(es, c, contractEscrowId, senderAddress) ==
    IF ~getBalanceSucceeds(senderAddress) THEN Served(es, c, FALSE)
    ELSE Served(updateEscrowStatus(es, contractEscrowId, "cancelled"),
                cancel_escrow(c, senderAddress, contractEscrowId).contract,
                updateEscrowStatusSucceeds(es, contractEscrowId))

\* the amount check accepting zero
amountRejected_ZeroAccepted(amount) == amount < 0

\* if (amount <= 0): the amount check of handleSend and handleCreateEscrow
amountRejected(amount) == amount <= 0

(***************************************************************************)
(* PaymentHandler                                                          *)
(***************************************************************************)
\* /send\s+(\d+(?:\.\d+)?)\s*(?:stx)?\s+to\s+(.+)/i : index of the word "to"
sendMatch(message) ==
    LET n == Normalize(message) IN
    IF Len(n) >= 4 /\ n[1] = "send" /\ n[2] \in DOMAIN NumberValue /\ n[3] = "to" THEN 3
    ELSE IF Len(n) >= 5 /\ n[1] = "send" /\ n[2] \in DOMAIN NumberValue
            /\ n[3] = "stx" /\ n[4] = "to" THEN 4
    ELSE 0

handleBalance(w, phoneNumber, user) ==
    IF getBalanceSucceeds(Get(user, "stx_address"))
    THEN Out(sendMessage(w, phoneNumber, "balance"), Ok)
    ELSE Out(w, Fail("balance_failed"))

handleHistory(w, phoneNumber, user) ==
    IF getTransactionsByPhone(w.tx, phoneNumber) = {}
    THEN Out(sendMessage(w, phoneNumber, "no_transactions"), Ok)
    ELSE Out(sendMessage(w, phoneNumber, "history"), Ok)

handleListContacts(w, phoneNumber) == Out(sendMessage(w, phoneNumber, "contact_list"), Ok)

handleAddContact(w, phoneNumber, message) ==
    IF Len(message) < 4 THEN Out(w, Fail("invalid_format"))
    ELSE LET contactName == message[3]
             contactAddress == message[4]
         IN IF ~isValidAddress(contactAddress) THEN Out(w, Fail("invalid_address"))
            ELSE IF ~addContactSucceeds(w.ct, phoneNumber, contactName, contactAddress)
            THEN Out(w, Fail("add_contact_failed"))
            ELSE Out(sendMessage([w EXCEPT !.ct = addContact(@, phoneNumber, contactName,
                                                              contactAddress)],
                                 phoneNumber, "contact_added"), Ok)

handleSend(w, phoneNumber, message, user, t) ==
    LET at == sendMatch(message) IN
    IF at = 0 THEN Out(w, Fail("invalid_format"))
    ELSE LET amount == NumberValue[Normalize(message)[2]]
             recipientInput == SubSeq(message, at + 1, Len(message))
             senderAddress == Get(user, "stx_address")
         IN IF amountRejected(amount) THEN Out(w, Fail("amount_not_positive"))
            ELSE IF ~getBalanceSucceeds(senderAddress) THEN Out(w, Fail("balance_failed"))
            ELSE IF LedgerBalance[senderAddress] < stxToMicroStx(amount) + MediumFee
            THEN Out(w, Fail("insufficient_balance"))
            ELSE IF ~resolveRecipientSucceeds(w.ct, phoneNumber, recipientInput)
            THEN Out(w, Fail("recipient_not_found"))
            ELSE \* setState(phoneNumber, 'payment', 'confirm_send', {...}): the
                 \* third argument is the stateData, the fourth is not a parameter
                 Out(sendMessage([w EXCEPT !.cs = setState(@, phoneNumber, "payment",
                                                          StringValue("confirm_send"), t)],
                                 phoneNumber, "confirm_payment"), Ok)

\* executeSend(phoneNumber, state)
executeSend(w, us, phoneNumber, state) ==
    IF "data" \notin DOMAIN state
    THEN Out([w EXCEPT !.cs = clearState(@, phoneNumber)], Fail("payment_failed"))
    ELSE LET user == getByPhone(us, phoneNumber)
             w1 == sendMessage(w, phoneNumber, "processing")
         IN IF Get(user, "private_key") = Undefined
            THEN Out([w1 EXCEPT !.cs = clearState(@, phoneNumber)], Fail("payment_failed"))
            ELSE Out(sendMessage([w1 EXCEPT
                         !.tx = sendTransaction(@, phoneNumber, state.data.recipient.address,
                                                state.data.amountMicroStx),
                         !.cs = clearState(@, phoneNumber)],
                       phoneNumber, "payment_sent"), Ok)

\* PaymentHandler.handleStateFlow(phoneNumber, message, state)
PaymentHandler_handleStateFlow(w, us, phoneNumber, message, state) ==
    LET normalizedMessage == Normalize(message) IN
    IF Get(state, "step") = "confirm_send"
    THEN IF normalizedMessage = <<"yes">> THEN executeSend(w, us, phoneNumber, state)
         ELSE IF normalizedMessage = <<"no">>
         THEN Out(sendMessage([w EXCEPT !.cs = clearState(@, phoneNumber)],
                              phoneNumber, "payment_cancelled"), Ok)
         ELSE Out(sendMessage(w, phoneNumber, "reprompt"), Ok)
    ELSE Out(w, NullResult)

\* the test that sends a message into the state flow: state && state.handler === 'payment'
PaymentStateOwns(state) == Get(state, "handler") = "payment"

\* PaymentHandler.handleMessage(phoneNumber, message)
PaymentHandler_handleMessage(w, us, phoneNumber, message, t) ==
    LET normalizedMessage == Normalize(message)
        user == getByPhone(us, phoneNumber)
        state == getState(w.cs, phoneNumber, t)
        r == IF Falsy(user) THEN Out(w, Fail("register_first"))
             ELSE IF PaymentStateOwns(state)
             THEN [PaymentHandler_handleStateFlow(w, us, phoneNumber, message, state)
                     EXCEPT !.stateFlow = TRUE]
             ELSE IF normalizedMessage = <<"balance">> THEN handleBalance(w, phoneNumber, user)
             ELSE IF StartsWith(normalizedMessage, <<"history">>)
             THEN handleHistory(w, phoneNumber, user)
             ELSE IF normalizedMessage \in {<<"contacts">>, <<"list", "contacts">>}
             THEN handleListContacts(w, phoneNumber)
             ELSE IF StartsWith(normalizedMessage, <<"add", "contact">>)
             THEN handleAddContact(w, phoneNumber, message)
             ELSE IF StartsWith(normalizedMessage, <<"send">>)
             THEN handleSend(w, phoneNumber, message, user, t)
             ELSE Out(w, NullResult)
    IN [r EXCEPT !.observed = ~Falsy(user) /\ state.success]

(***************************************************************************)
(* EscrowHandler                                                           *)
(***************************************************************************)
\* /escrow\s+(\d+(?:\.\d+)?)\s+to\s+(.+?)\s+for\s+(\d+)\s+(hour|hours|day|days)/i :
\* index of the word "for"
escrowMatch(message) ==
    LET n == Normalize(message)
        fit == {k \in 5..(Len(n) - 2) :
                   /\ n[1] = "escrow" /\ n[2] \in DOMAIN NumberValue /\ n[3] = "to"
                   /\ n[k] = "for" /\ n[k + 1] \in DOMAIN NumberValue
                   /\ n[k + 2] \in {"hour", "hours", "day", "days"}}
    IN IF fit = {} THEN 0 ELSE CHOOSE k \in fit : \A j \in fit : k <= j

BLOCKS_PER_HOUR == 6
BLOCKS_PER_DAY == 144

\* parseInt(text) on a run of decimal digits
RECURSIVE parseInt(_)
parseInt(digits) ==
    IF digits = <<>> THEN 0
    ELSE 10 * parseInt(SubSeq(digits, 1, Len(digits) - 1)) + digits[Len(digits)]

\* the calculation with every unit taken for hours
timeoutBlocks_AllHours(timeValue, timeUnit) == timeValue * BLOCKS_PER_HOUR

\* timeoutBlocks of handleCreateEscrow: 6 blocks per hour, 144 blocks per day
timeoutBlocks(timeValue, timeUnit) ==
    IF WordStartsWith(timeUnit, "hour")
    THEN timeValue * BLOCKS_PER_HOUR
    ELSE timeValue * BLOCKS_PER_DAY

\* /(release|refund|cancel)\s+escrow\s+#?(\d+)/i
escrowIdMatch(message, verb) ==
    LET n == Normalize(message) IN
    Len(n) >= 3 /\ n[1] = verb /\ n[2] = "escrow" /\ n[3] \in DOMAIN EscrowRef

handleCreateEscrow(w, phoneNumber, message, user, t) ==
    LET at == escrowMatch(message) IN
    IF at = 0 THEN Out(w, Fail("invalid_format"))
    ELSE LET n == Normalize(message)
             amount == NumberValue[n[2]]
             recipientInput == SubSeq(message, 4, at - 1)
             timeValue == NumberValue[n[at + 1]]
             timeoutInBlocks == timeoutBlocks(timeValue, n[at + 2])
             senderAddress == Get(user, "stx_address")
         IN IF amountRejected(amount) THEN Out(w, Fail("amount_not_positive"))
            ELSE IF ~getBalanceSucceeds(senderAddress) THEN Out(w, Fail("balance_failed"))
            ELSE IF LedgerBalance[senderAddress] < stxToMicroStx(amount) + MediumFee
            THEN Out(w, Fail("insufficient_balance"))
            ELSE IF ~resolveRecipientSucceeds(w.ct, phoneNumber, recipientInput)
            THEN Out(w, Fail("recipient_not_found"))
            ELSE Out(sendMessage([w EXCEPT !.cs = setState(@, phoneNumber, "escrow",
                                                          StringValue("confirm_create"), t)],
                                 phoneNumber, "confirm_escrow"), Ok)

\* handleReleaseEscrow, handleRefundEscrow and handleCancelEscrow
handleEscrowAction(w, phoneNumber, message, verb, t) ==
    IF ~escrowIdMatch(message, verb) THEN Out(w, Fail("invalid_format"))
    ELSE LET escrowId == EscrowRef[Normalize(message)[3]]
             found == {e \in getEscrowsByPhone(w.es, phoneNumber,
                                               IF verb = "release" THEN "all" ELSE "sender") :
                          e.contract_escrow_id = escrowId}
         IN IF found = {} THEN Out(w, Fail("escrow_not_found"))
            ELSE IF \A e \in found : e.status # "active" THEN Out(w, Fail("escrow_not_active"))
            ELSE IF verb = "refund" /\ ~canRefund(w.chain, escrowId, t)
            THEN Out(w, Fail("timeout_not_reached"))
            ELSE Out(sendMessage([w EXCEPT !.cs = setState(@, phoneNumber, "escrow",
                                                  StringValue(IF verb = "release" THEN "confirm_release"
                                                              ELSE IF verb = "refund" THEN "confirm_refund"
                                                              ELSE "confirm_cancel"), t)],
                                 phoneNumber, "confirm_escrow_action"), Ok)

handleEscrowStatus(w, phoneNumber, message) ==
    LET n == Normalize(message) IN
    IF ~(Len(n) >= 3 /\ n[1] = "escrow" /\ n[2] = "status" /\ n[3] \in DOMAIN EscrowRef)
    THEN Out(w, Fail("invalid_format"))
    ELSE IF {e \in getEscrowsByPhone(w.es, phoneNumber, "all") :
                e.contract_escrow_id = EscrowRef[n[3]]} = {}
    THEN Out(w, Fail("escrow_not_found"))
    ELSE Out(sendMessage(w, phoneNumber, "escrow_status"), Ok)

handleListEscrows(w, phoneNumber) ==
    IF getEscrowsByPhone(w.es, phoneNumber, "all") = {}
    THEN Out(sendMessage(w, phoneNumber, "no_escrows"), Ok)
    ELSE Out(sendMessage(w, phoneNumber, "escrow_list"), Ok)

\* executeCreateEscrow, executeReleaseEscrow, executeRefundEscrow, executeCancelEscrow
executeEscrow(w, us, phoneNumber, state, t) ==
    IF "data" \notin DOMAIN state
    THEN Out([w EXCEPT !.cs = clearState(@, phoneNumber)], Fail("escrow_failed"))
    ELSE LET user == getByPhone(us, phoneNumber) IN
         IF Get(user, "private_key") = Undefined
         THEN Out([w EXCEPT !.cs = clearState(@, phoneNumber)], Fail("escrow_failed"))
         ELSE LET w1 == sendMessage(w, phoneNumber, "processing")
                  served ==
                      IF state.step = "confirm_create"
                      THEN createEscrow(w.es, w.chain, state.data.senderAddress,
                                        state.data.recipient.address,
                                        state.data.amountMicroStx,
                                        state.data.timeoutBlocks, phoneNumber,
                                        state.data.recipient.phone, t)
                      ELSE IF state.step = "confirm_release"
                      THEN releaseEscrow(w.es, w.chain, state.data.escrowId,
                                         state.data.userAddress)
                      ELSE IF state.step = "confirm_refund"
                      THEN refundEscrow(w.es, w.chain, state.data.escrowId,
                                        state.data.senderAddress, t)
                      ELSE cancelEscrow(w.es, w.chain, state.data.escrowId,
                                        state.data.senderAddress)
                  w2 == [w1 EXCEPT !.es = served.es, !.chain = served.chain,
                                   !.cs = clearState(@, phoneNumber)]
              IN IF served.success
                 THEN Out(sendMessage(w2, phoneNumber, "escrow_done"), Ok)
                 ELSE Out(w2, Fail("escrow_failed"))

\* EscrowHandler.handleStateFlow(phoneNumber, message, state)
EscrowHandler_handleStateFlow(w, us, phoneNumber, message, state, t) ==
    LET normalizedMessage == Normalize(message) IN
    IF normalizedMessage # <<"yes">> /\ normalizedMessage # <<"no">>
    THEN Out(sendMessage(w, phoneNumber, "reprompt"), Ok)
    ELSE IF normalizedMessage = <<"no">>
    THEN Out(sendMessage([w EXCEPT !.cs = clearState(@, phoneNumber)],
                         phoneNumber, "cancelled"), Ok)
    ELSE IF Get(state, "step") \in {"confirm_create", "confirm_release",
                                    "confirm_refund", "confirm_cancel"}
    THEN executeEscrow(w, us, phoneNumber, state, t)
    ELSE Out(w, NullResult)

\* the test that sends a message into the state flow: state && state.handler === 'escrow'
EscrowStateOwns(state) == Get(state, "handler") = "escrow"

\* EscrowHandler.handleMessage(phoneNumber, message)
EscrowHandler_handleMessage(w, us, phoneNumber, message, t) ==
    LET normalizedMessage == Normalize(message)
        user == getByPhone(us, phoneNumber)
        state == getState(w.cs, phoneNumber, t)
        r == IF Falsy(user) THEN Out(w, Fail("register_first"))
             ELSE IF EscrowStateOwns(state)
             THEN [EscrowHandler_handleStateFlow(w, us, phoneNumber, message, state, t)
                     EXCEPT !.stateFlow = TRUE]
             ELSE IF StartsWith(normalizedMessage, <<"escrow">>)
                     /\ ~Includes(normalizedMessage, <<"status">>)
             THEN handleCreateEscrow(w, phoneNumber, message, user, t)
             ELSE IF StartsWith(normalizedMessage, <<"release", "escrow">>)
             THEN handleEscrowAction(w, phoneNumber, message, "release", t)
             ELSE IF StartsWith(normalizedMessage, <<"refund", "escrow">>)
             THEN handleEscrowAction(w, phoneNumber, message, "refund", t)
             ELSE IF StartsWith(normalizedMessage, <<"cancel", "escrow">>)
             THEN handleEscrowAction(w, phoneNumber, message, "cancel", t)
             ELSE IF Includes(normalizedMessage, <<"escrow", "status">>)
             THEN handleEscrowStatus(w, phoneNumber, message)
             ELSE IF normalizedMessage \in {<<"my", "escrows">>, <<"escrows">>}
             THEN handleListEscrows(w, phoneNumber)
             ELSE Out(w, NullResult)
    IN [r EXCEPT !.observed = ~Falsy(user) /\ state.success]

(***************************************************************************)
(* RegistrationHandler                                                     *)
(***************************************************************************)
\* the methods class RegistrationHandler defines
RegistrationHandlerMethods ==
    {"handleRegistration", "startRegistration", "completeRegistration",
     "initiateRegistration", "cancelRegistration", "getRegistrationStatus",
     "checkPendingEscrows"}

\* startRegistration(phoneNumber)
startRegistration(w, phoneNumber, t) ==
    [w |-> sendMessage([w EXCEPT !.cs = setState(@, phoneNumber, "registration",
                              [step |-> 1, awaitingAddress |-> TRUE, startedAt |-> t], t)],
                       phoneNumber, "registration_prompt"),
     us |-> {}, result |-> [success |-> TRUE, message |-> "Registration started"]]

\* completeRegistration from its userService.create call on
completeRegistrationCreate(w, us, phoneNumber, cleanAddress) ==
    IF ~createSucceeds(us, phoneNumber, cleanAddress)
    THEN [w |-> [sendMessage(w, phoneNumber, "error_registration_failed")
                   EXCEPT !.cs = clearState(@, phoneNumber)], us |-> us,
          result |-> [success |-> FALSE,
                      error |-> createError(us, phoneNumber, cleanAddress)]]
    ELSE [w |-> sendMessage([w EXCEPT !.cs = clearState(@, phoneNumber)],
                            phoneNumber, "welcome"),
          us |-> create(us, phoneNumber, cleanAddress),
          result |-> [success |-> TRUE, message |-> "Registration completed successfully"]]

\* completeRegistration(phoneNumber, stxAddress); us is the table users
completeRegistration(w, us, phoneNumber, stxAddress) ==
    IF ~validateStxAddress(stxAddress)
    THEN [w |-> sendMessage(w, phoneNumber, "error_invalid_address"), us |-> us,
          result |-> [success |-> FALSE, error |-> "invalid address"]]
    ELSE IF addressExists(us, stxAddress)
    THEN [w |-> [sendMessage(w, phoneNumber, "error_address_registered")
                   EXCEPT !.cs = clearState(@, phoneNumber)], us |-> us,
          result |-> [success |-> FALSE, error |-> "Address already registered"]]
    ELSE completeRegistrationCreate(w, us, phoneNumber, stxAddress)

\* the call handleRegistration(phoneNumber, messageBody) passes every check
\* and arrives at userService.create
reachesCreate(w, us, phoneNumber, messageBody, t) ==
    /\ validatePhone(phoneNumber)
    /\ ~exists(us, phoneNumber)
    /\ getState(w.cs, phoneNumber, t).success
    /\ validateStxAddress(messageBody)
    /\ ~addressExists(us, messageBody)

\* handleRegistration(phoneNumber, messageBody)
handleRegistration(w, us, phoneNumber, messageBody, t) ==
    IF ~validatePhone(phoneNumber)
    THEN [w |-> sendMessage(w, phoneNumber, "error_invalid_phone"), us |-> us,
          result |-> [success |-> FALSE, error |-> "Invalid phone number"]]
    ELSE IF exists(us, phoneNumber)
    THEN [w |-> sendMessage(w, phoneNumber, "error_already_registered"), us |-> us,
          result |-> [success |-> FALSE, error |-> "User already registered"]]
    ELSE IF ~getState(w.cs, phoneNumber, t).success
    THEN [startRegistration(w, phoneNumber, t) EXCEPT !.us = us]
    ELSE completeRegistration(w, us, phoneNumber, messageBody)

(***************************************************************************)
(* webhook                                                                 *)
(***************************************************************************)
\* sendHelpMessage(phoneNumber) throws inside its try: user.stx_address.substring
\* on a value without stx_address
sendHelpMessageThrows(us, phoneNumber) ==
    LET user == getByPhone(us, phoneNumber) IN
    ~Falsy(user) /\ Get(user, "stx_address") = Undefined

\* sendHelpMessage(phoneNumber): an exception is logged and nothing is sent
sendHelpMessage(w, us, phoneNumber) ==
    IF Falsy(getByPhone(us, phoneNumber)) THEN sendMessage(w, phoneNumber, "help_new_user")
    ELSE IF sendHelpMessageThrows(us, phoneNumber) THEN w
    ELSE sendMessage(w, phoneNumber, "help_registered")

\* the webhook's test without its containment rule
IsEscrowCommand_PrefixOnly(normalizedMessage) ==
    \/ StartsWith(normalizedMessage, <<"escrow">>)
    \/ StartsWith(normalizedMessage, <<"release", "escrow">>)
    \/ StartsWith(normalizedMessage, <<"refund", "escrow">>)
    \/ StartsWith(normalizedMessage, <<"cancel", "escrow">>)
    \/ normalizedMessage \in {<<"my", "escrows">>, <<"escrows">>}

\* the webhook's test for the escrow handler
IsEscrowCommand(normalizedMessage) ==
    \/ StartsWith(normalizedMessage, <<"escrow">>)
    \/ StartsWith(normalizedMessage, <<"release", "escrow">>)
    \/ StartsWith(normalizedMessage, <<"refund", "escrow">>)
    \/ StartsWith(normalizedMessage, <<"cancel", "escrow">>)
    \/ Includes(normalizedMessage, <<"escrow", "status">>)
    \/ normalizedMessage \in {<<"my", "escrows">>, <<"escrows">>}

\* what processMessage does with a handler's result
Deliver(r, phoneNumber, route) ==
    [r EXCEPT !.w = IF "null" \in DOMAIN r.result
                    THEN sendMessage(r.w, phoneNumber, "unknown_command")
                    ELSE IF "message" \in DOMAIN r.result
                    THEN sendMessage(r.w, phoneNumber, r.result.message)
                    ELSE r.w] @@ [route |-> route]

\* processMessage(phoneNumber, messageText, messageId)
processMessage(w, us, phoneNumber, messageText, t) ==
    LET normalizedMessage == Normalize(messageText)
        user == getByPhone(us, phoneNumber)
    IN IF normalizedMessage \in {<<"help">>, <<"menu">>}
       THEN Out(sendHelpMessage(w, us, phoneNumber), Ok) @@ [route |-> "help"]
       ELSE IF Falsy(user) \/ StartsWith(normalizedMessage, <<"register">>)
       THEN IF "handleMessage" \in RegistrationHandlerMethods
            THEN Out(handleRegistration(w, us, phoneNumber, messageText, t).w, Ok)
                   @@ [route |-> "registration"]
            ELSE Out(sendMessage(w, phoneNumber, "something_went_wrong"), Fail("exception"))
                   @@ [route |-> "registration"]
       ELSE IF IsEscrowCommand(normalizedMessage)
       THEN Deliver(EscrowHandler_handleMessage(w, us, phoneNumber, messageText, t),
                    phoneNumber, "escrow")
       ELSE Deliver(PaymentHandler_handleMessage(w, us, phoneNumber, messageText, t),
                    phoneNumber, "payment")

NoLocal == [op |-> "none"]
NoRet == [op |-> "none"]
NoInv == [messageId |-> 0, op |-> "none"]

TypeOK ==
    /\ now \in 0..(MaxTime + TickMinutes)
    /\ \A r \in conversation_states :
          /\ r.phone_number \in Phones
          /\ r.state_type \in StateTypes
    /\ pc \in [Procs -> {"idle", "update_write", "reg_create", "add_insert"}]

Init ==
    /\ now = 0
    /\ conversation_states = {}
    /\ pc = [p \in Procs |-> "idle"]
    /\ local = [p \in Procs |-> NoLocal]
    /\ ret = NoRet
    /\ users = {}
    /\ contacts = {}
    /\ transactions = {}
    /\ escrows = {}
    /\ contract = Deployed
    /\ ledger = <<>>
    /\ inv = NoInv

\* the clock advances
Tick ==
    /\ now < MaxTime
    /\ now' = now + TickMinutes
    /\ UNCHANGED <<storeVars, appVars>>

\* a caller runs stateService.setState(phoneNumber, stateType, stateData)
SetState(p, phoneNumber, stateType, stateData) ==
    /\ pc[p] = "idle"
    /\ conversation_states' = setState(conversation_states, phoneNumber, stateType, stateData, now)
    /\ UNCHANGED <<now, pc, local, ret, appVars>>

\* a caller runs getState, hasActiveState and getStateType
GetState(p, phoneNumber) ==
    /\ pc[p] = "idle"
    /\ ret' = [op |-> "getState", phoneNumber |-> phoneNumber, at |-> now,
                  success |-> getState(conversation_states, phoneNumber, now).success,
                  hasActiveState |-> hasActiveState(conversation_states, phoneNumber, now),
                  stateType |-> getStateType(conversation_states, phoneNumber, now)]
    /\ UNCHANGED <<now, conversation_states, pc, local, appVars>>

\* a caller runs stateService.clearState(phoneNumber)
ClearState(p, phoneNumber) ==
    /\ pc[p] = "idle"
    /\ conversation_states' = clearState(conversation_states, phoneNumber)
    /\ UNCHANGED <<now, pc, local, ret, appVars>>

\* updateStateData, first half: await this.getState(phoneNumber)
UpdateStateDataRead(p, phoneNumber, newData) ==
    /\ pc[p] = "idle"
    /\ LET currentState == getState(conversation_states, phoneNumber, now) IN
       IF ~currentState.success
       THEN /\ ret' = [op |-> "updateStateData", phoneNumber |-> phoneNumber,
                            at |-> now, success |-> FALSE]
            /\ UNCHANGED <<pc, local>>
       ELSE /\ pc' = [pc EXCEPT ![p] = "update_write"]
            /\ local' = [local EXCEPT ![p] =
                           [op |-> "updateStateData", phoneNumber |-> phoneNumber,
                            newData |-> newData,
                            currentState |-> [stateType |-> currentState.state.stateType,
                                              stateData |-> currentState.state.stateData]]]
            /\ UNCHANGED ret
    /\ UNCHANGED <<now, conversation_states, appVars>>

\* updateStateData, second half: merge and await this.setState(...)
UpdateStateDataWrite(p) ==
    /\ pc[p] = "update_write"
    /\ LET mergedData == Spread(local[p].currentState.stateData, local[p].newData) IN
       conversation_states' = setState(conversation_states, local[p].phoneNumber,
                                       local[p].currentState.stateType, mergedData, now)
    /\ pc' = [pc EXCEPT ![p] = "idle"]
    /\ local' = [local EXCEPT ![p] = NoLocal]
    /\ ret' = [op |-> "updateStateData", phoneNumber |-> local[p].phoneNumber,
                at |-> now, success |-> TRUE]
    /\ UNCHANGED <<now, appVars>>

(***************************************************************************)
(* The bot: inbound messages, registration calls and direct store calls    *)
(***************************************************************************)
Messages ==
    {<<"help">>, <<"yes">>, <<"YES">>, <<"no">>, <<"maybe">>, <<"balance">>,
     <<"register">>, <<"send", "5", "to", "John">>, <<"add", "contact", "John", A1>>,
     <<"escrow", "5", "to", "John", "for", "24", "hours">>,
     <<"release", "escrow", "#1">>, <<"my", "escrows">>, <<A1>>}

\* (phoneNumber, messageText) of the deliveries to the webhook
MessageInputs == ({U1} \X Messages) \cup {<<U2, <<"yes">>>>}

\* (phoneNumber, messageBody) of the handleRegistration calls
RegistrationInputs == {<<U1, A1>>, <<U1, AShort>>, <<U2, A1>>}

\* (phoneNumber, stateType, stateData) of the direct setState calls that
\* stage a confirmation: the values the handlers' setState calls store
StagedInputs ==
    {<<U1, "payment", StringValue("confirm_send")>>,
     <<U1, "escrow", StringValue("confirm_release")>>,
     <<U2, "payment", StringValue("confirm_send")>>}

\* Twilio delivers a message to the webhook
ProcessMessage(phoneNumber, messageText) ==
    /\ inv.messageId < MaxMessages
    /\ \E r \in {processMessage(World(conversation_states, contacts, transactions, escrows, contract),
                                users, phoneNumber, messageText, now)} :
          /\ conversation_states' = r.w.cs
          /\ contacts' = r.w.ct
          /\ transactions' = r.w.tx
          /\ escrows' = r.w.es
          /\ contract' = r.w.chain
          /\ inv' = [messageId |-> inv.messageId + 1, op |-> "processMessage",
                     phoneNumber |-> phoneNumber, text |-> messageText,
                     found |-> getStateType(conversation_states, phoneNumber, now),
                     route |-> r.route, observed |-> r.observed,
                     stateFlow |-> r.stateFlow, result |-> r.result,
                     sent |-> r.w.sent, left |-> RowsOf(r.w.cs, phoneNumber)]
    /\ UNCHANGED <<now, pc, local, ret, users, ledger>>

\* a caller runs registrationHandler.handleRegistration(phoneNumber, messageBody)
HandleRegistration(phoneNumber, messageBody) ==
    /\ \E r \in {handleRegistration(World(conversation_states, contacts, transactions, escrows, contract),
                                    users, phoneNumber, messageBody, now)} :
          /\ conversation_states' = r.w.cs
          /\ users' = r.us
          /\ inv' = [messageId |-> inv.messageId, op |-> "handleRegistration",
                     phoneNumber |-> phoneNumber, text |-> <<messageBody>>,
                     result |-> r.result, sent |-> r.w.sent,
                     left |-> RowsOf(r.w.cs, phoneNumber)]
    /\ UNCHANGED <<now, pc, local, ret, contacts, transactions, escrows, contract, ledger>>

Next ==
    \/ Tick
    \/ \E i \in StagedInputs : SetState("p1", i[1], i[2], i[3])
    \/ \E u \in Phones : ClearState("p1", u)
    \/ \E i \in RegistrationInputs : HandleRegistration(i[1], i[2])
    \/ \E i \in MessageInputs : ProcessMessage(i[1], i[2])

Spec == Init /\ [][Next]_vars

StoreNext ==
    \/ Tick
    \/ \E p \in Procs, i \in SetInputs : SetState(p, i[1], i[2], i[3])
    \/ \E p \in Procs, u \in Phones : GetState(p, u)
    \/ \E p \in Procs, u \in Phones : ClearState(p, u)
    \/ \E p \in Procs, i \in UpdateInputs : UpdateStateDataRead(p, i[1], i[2])
    \/ \E p \in Procs : UpdateStateDataWrite(p)

StoreSpec == Init /\ [][StoreNext]_vars

(***************************************************************************)
(* Registration: concurrent handleRegistration calls and address updates   *)
(***************************************************************************)
\* (phoneNumber, messageBody) of the concurrent handleRegistration calls
RegistrationCalls == {<<U1, A1>>, <<U1, AShort>>, <<U1, A2>>, <<U2, A1>>}

\* (phoneNumber, newStxAddress) of the updateAddress calls
UpdateAddressInputs == {<<U1, A1>>, <<U1, A2>>, <<U2, A2>>, <<U2, AShort>>}

\* handleRegistration up to the await of userService.create: a call that
\* passes every check stops there, any other call runs to its end
RegistrationBegin(p, phoneNumber, messageBody) ==
    /\ pc[p] = "idle"
    /\ IF reachesCreate(World(conversation_states, contacts, transactions, escrows, contract),
                        users, phoneNumber, messageBody, now)
       THEN /\ pc' = [pc EXCEPT ![p] = "reg_create"]
            /\ local' = [local EXCEPT ![p] =
                           [op |-> "completeRegistration", phoneNumber |-> phoneNumber,
                            cleanAddress |-> messageBody]]
            /\ UNCHANGED <<conversation_states, users, inv>>
       ELSE /\ \E r \in {handleRegistration(World(conversation_states, contacts,
                                                  transactions, escrows, contract),
                                            users, phoneNumber, messageBody, now)} :
                 /\ conversation_states' = r.w.cs
                 /\ users' = r.us
                 /\ inv' = [messageId |-> inv.messageId, op |-> "handleRegistration",
                            phoneNumber |-> phoneNumber, text |-> <<messageBody>>,
                            result |-> r.result, sent |-> r.w.sent,
                            left |-> RowsOf(r.w.cs, phoneNumber)]
            /\ UNCHANGED <<pc, local>>
    /\ UNCHANGED <<now, ret, contacts, transactions, escrows, contract, ledger>>

\* completeRegistration from userService.create to its return
RegistrationCreate(p) ==
    /\ pc[p] = "reg_create"
    /\ \E r \in {completeRegistrationCreate(World(conversation_states, contacts,
                                                  transactions, escrows, contract),
                                            users, local[p].phoneNumber,
                                            local[p].cleanAddress)} :
          /\ conversation_states' = r.w.cs
          /\ users' = r.us
          /\ inv' = [messageId |-> inv.messageId, op |-> "handleRegistration",
                     phoneNumber |-> local[p].phoneNumber,
                     text |-> <<local[p].cleanAddress>>,
                     result |-> r.result, sent |-> r.w.sent,
                     left |-> RowsOf(r.w.cs, local[p].phoneNumber)]
    /\ pc' = [pc EXCEPT ![p] = "idle"]
    /\ local' = [local EXCEPT ![p] = NoLocal]
    /\ UNCHANGED <<now, ret, contacts, transactions, escrows, contract, ledger>>

\* a caller runs userService.updateAddress(phoneNumber, newStxAddress)
UpdateAddress(phoneNumber, newStxAddress) ==
    /\ users' = updateAddress(users, phoneNumber, newStxAddress)
    /\ inv' = [messageId |-> inv.messageId, op |-> "updateAddress",
               phoneNumber |-> phoneNumber, text |-> <<newStxAddress>>,
               result |-> IF updateAddressSucceeds(users, phoneNumber, newStxAddress)
                          THEN [success |-> TRUE]
                          ELSE [success |-> FALSE,
                                error |-> updateAddressError(users, phoneNumber,
                                                             newStxAddress)],
               sent |-> <<>>, left |-> RowsOf(conversation_states, phoneNumber)]
    /\ UNCHANGED <<now, conversation_states, pc, local, ret, contacts, transactions,
                   escrows, contract, ledger>>

RegistrationNext ==
    \/ Tick
    \/ \E p \in Procs, i \in RegistrationCalls : RegistrationBegin(p, i[1], i[2])
    \/ \E p \in Procs : RegistrationCreate(p)
    \/ \E i \in UpdateAddressInputs : UpdateAddress(i[1], i[2])

RegistrationSpec == Init /\ [][RegistrationNext]_vars

(***************************************************************************)
(* The bot receiving send and escrow-create commands                       *)
(***************************************************************************)
\* the send and escrow-create messages delivered to the webhook
CommandMessages ==
    {<<"send", "5", "to", "John">>, <<"send", "0", "to", "John">>,
     <<"send", "abc", "to", "John">>,
     <<"escrow", "0", "to", "John", "for", "24", "hours">>,
     <<"escrow", "abc", "to", "John", "for", "24", "hours">>}

CommandInputs == {U1} \X CommandMessages

CommandNext ==
    \/ Tick
    \/ \E i \in StagedInputs : SetState("p1", i[1], i[2], i[3])
    \/ \E i \in RegistrationInputs : HandleRegistration(i[1], i[2])
    \/ \E i \in CommandInputs : ProcessMessage(i[1], i[2])

CommandSpec == Init /\ [][CommandNext]_vars

(***************************************************************************)
(* The escrow contract, EscrowService and the escrow commands              *)
(***************************************************************************)
\* the principals that call the contract: the two account holders and a third
Principals == {A1, A2, ATest}

\* the escrow ids that calls name: those the contract can hold and one more
EscrowIds == 0..MaxEscrows

\* timeout-blocks of the escrows created: none, and one block
TimeoutInputs == {0, 1}

EscrowCommandMessages ==
    {<<"release", "escrow", "#0">>, <<"refund", "escrow", "#0">>,
     <<"cancel", "escrow", "#0">>}

EscrowCommandInputs == {U1, U2} \X EscrowCommandMessages

\* what a contract call leaves in inv
Called(op, txSender, escrowId, r) ==
    [messageId |-> inv.messageId, op |-> op, txSender |-> txSender,
     escrowId |-> escrowId, ok |-> r.ok, value |-> r.value]

\* what an EscrowService call leaves in inv
ServiceCalled(op, caller, escrowId, r) ==
    [messageId |-> inv.messageId, op |-> op, txSender |-> caller,
     escrowId |-> escrowId, success |-> r.success]

\* escrowService.createEscrow for U1 (A1) in favour of U2 (A2), 5 STX
CreateEscrow(blocks) ==
    /\ contract.nonce < MaxEscrows
    /\ \E r \in {createEscrow(escrows, contract, A1, A2, stxToMicroStx(5), blocks,
                              U1, U2, now)} :
          /\ escrows' = r.es
          /\ contract' = r.chain
          /\ inv' = ServiceCalled("createEscrow", A1, contract.nonce, r)
                       @@ [announced |-> createdEscrowId(escrows, r)]
    /\ UNCHANGED <<now, storeVars, users, contacts, transactions, ledger>>

\* escrowService.releaseEscrow(contractEscrowId, callerAddress, callerKey)
ReleaseEscrow(contractEscrowId, callerAddress) ==
    /\ \E r \in {releaseEscrow(escrows, contract, contractEscrowId, callerAddress)} :
          /\ escrows' = r.es
          /\ contract' = r.chain
          /\ inv' = ServiceCalled("releaseEscrow", callerAddress, contractEscrowId, r)
    /\ UNCHANGED <<now, storeVars, users, contacts, transactions, ledger>>

\* escrowService.refundEscrow(contractEscrowId, senderAddress, senderKey)
RefundEscrow(contractEscrowId, senderAddress) ==
    /\ \E r \in {refundEscrow(escrows, contract, contractEscrowId, senderAddress, now)} :
          /\ escrows' = r.es
          /\ contract' = r.chain
          /\ inv' = ServiceCalled("refundEscrow", senderAddress, contractEscrowId, r)
    /\ UNCHANGED <<now, storeVars, users, contacts, transactions, ledger>>

\* escrowService.cancelEscrow(contractEscrowId, senderAddress, senderKey)
CancelEscrow(contractEscrowId, senderAddress) ==
    /\ \E r \in {cancelEscrow(escrows, contract, contractEscrowId, senderAddress)} :
          /\ escrows' = r.es
          /\ contract' = r.chain
          /\ inv' = ServiceCalled("cancelEscrow", senderAddress, contractEscrowId, r)
    /\ UNCHANGED <<now, storeVars, users, contacts, transactions, ledger>>

\* a principal calls (release-escrow escrow-id)
ContractRelease(txSender, escrowId) ==
    /\ \E r \in {release_escrow(contract, txSender, escrowId)} :
          /\ contract' = r.contract
          /\ inv' = Called("release-escrow", txSender, escrowId, r)
    /\ UNCHANGED <<now, storeVars, users, contacts, transactions, escrows, ledger>>

\* a principal calls (refund-escrow escrow-id)
ContractRefund(txSender, escrowId) ==
    /\ \E r \in {refund_escrow(contract, txSender, escrowId, BlockHeight(now))} :
          /\ contract' = r.contract
          /\ inv' = Called("refund-escrow", txSender, escrowId, r)
    /\ UNCHANGED <<now, storeVars, users, contacts, transactions, escrows, ledger>>

\* a principal calls (cancel-escrow escrow-id)
ContractCancel(txSender, escrowId) ==
    /\ \E r \in {cancel_escrow(contract, txSender, escrowId)} :
          /\ contract' = r.contract
          /\ inv' = Called("cancel-escrow", txSender, escrowId, r)
    /\ UNCHANGED <<now, storeVars, users, contacts, transactions, escrows, ledger>>

EscrowNext ==
    \/ Tick
    \/ \E b \in TimeoutInputs : CreateEscrow(b)
    \/ \E id \in EscrowIds, a \in {A1, A2} : ReleaseEscrow(id, a)
    \/ \E id \in EscrowIds, a \in {A1, A2} : RefundEscrow(id, a)
    \/ \E id \in EscrowIds, a \in {A1, A2} : CancelEscrow(id, a)
    \/ \E id \in EscrowIds, a \in Principals : ContractRelease(a, id)
    \/ \E id \in EscrowIds, a \in Principals : ContractRefund(a, id)
    \/ \E id \in EscrowIds, a \in Principals : ContractCancel(a, id)
    \/ \E i \in EscrowCommandInputs : ProcessMessage(i[1], i[2])

EscrowSpec == Init /\ [][EscrowNext]_vars

\* the chain keeps confirming what is broadcast and the service and the
\* webhook keep serving their callers
EscrowFairSpec == EscrowSpec /\ WF_vars(EscrowNext)

(***************************************************************************)
(* EscrowService and its table, called directly                            *)
(***************************************************************************)
\* a caller runs escrowService.saveEscrowToDatabase for an escrow of U1 in
\* favour of U2 that the chain has confirmed under contractEscrowId
SaveEscrowToDatabase(contractEscrowId) ==
    /\ Cardinality(escrows) < MaxEscrows
    /\ escrows' = saveEscrowToDatabase(escrows, contractEscrowId, U1, A2, U2,
                                       stxToMicroStx(5), 1, "active")
    /\ inv' = [messageId |-> inv.messageId, op |-> "saveEscrowToDatabase",
               txSender |-> A1, escrowId |-> contractEscrowId, success |-> TRUE]
    /\ UNCHANGED <<now, storeVars, users, contacts, transactions, contract, ledger>>

EscrowServiceNext ==
    \/ Tick
    \/ \E b \in TimeoutInputs : CreateEscrow(b)
    \/ \E id \in EscrowIds : SaveEscrowToDatabase(id)
    \/ \E id \in EscrowIds, a \in {A1, A2} : ReleaseEscrow(id, a)
    \/ \E id \in EscrowIds, a \in {A1, A2} : RefundEscrow(id, a)
    \/ \E id \in EscrowIds, a \in {A1, A2} : CancelEscrow(id, a)

EscrowServiceSpec == Init /\ [][EscrowServiceNext]_vars

(***************************************************************************)
(* TransactionService, its table and the Ledger                            *)
(***************************************************************************)
\* the transaction ids of the calls
TxIds == 1..MaxTransactions

\* the status values updateTransactionStatus documents
TransactionStatuses == {"pending", "confirmed", "failed"}

\* tx_status of a transaction the Ledger has mined
MinedStatuses == {"success", "abort_by_response"}

\* a caller runs transactionService.sendTransaction: broadcast and record
SendTransaction ==
    /\ Cardinality(transactions) < MaxTransactions
    /\ transactions' = sendTransaction(transactions, U1, A2, stxToMicroStx(5))
    /\ inv' = [messageId |-> inv.messageId, op |-> "sendTransaction",
               txId |-> Cardinality(transactions) + 1, status |-> "pending",
               success |-> TRUE]
    /\ UNCHANGED <<now, storeVars, users, contacts, escrows, contract, ledger>>

\* the Ledger mines a broadcast transaction; its tx_status is final
Mine(txId, status) ==
    /\ \E r \in transactions : r.tx_id = txId
    /\ txId \notin DOMAIN ledger
    /\ ledger' = (txId :> status) @@ ledger
    /\ UNCHANGED <<now, storeVars, users, contacts, transactions, escrows, contract, inv>>

\* a caller runs transactionService.updateTransactionStatus(txId, status)
UpdateTransactionStatus(txId, status) ==
    /\ transactions' = updateTransactionStatus(transactions, txId, status)
    /\ inv' = [messageId |-> inv.messageId, op |-> "updateTransactionStatus",
               txId |-> txId, status |-> status,
               success |-> updateTransactionStatusSucceeds(transactions, txId)]
    /\ UNCHANGED <<now, storeVars, users, contacts, escrows, contract, ledger>>

\* a caller runs transactionService.monitorTransaction(txId)
MonitorTransaction(txId) ==
    /\ \E r \in {monitorTransaction(transactions, ledger, txId)} :
          /\ transactions' = r.tx
          /\ inv' = [messageId |-> inv.messageId, op |-> "monitorTransaction",
                     txId |-> txId, status |-> r.status, success |-> r.success]
    /\ UNCHANGED <<now, storeVars, users, contacts, escrows, contract, ledger>>

\* a caller runs transactionService.checkPendingTransactions()
CheckPendingTransactions ==
    /\ transactions' = checkPendingTransactions(transactions, ledger)
    /\ inv' = [messageId |-> inv.messageId, op |-> "checkPendingTransactions",
               txId |-> 0, status |-> "pending", success |-> TRUE]
    /\ UNCHANGED <<now, storeVars, users, contacts, escrows, contract, ledger>>

TransactionNext ==
    \/ Tick
    \/ SendTransaction
    \/ \E id \in TxIds, st \in MinedStatuses : Mine(id, st)
    \/ \E id \in TxIds, st \in TransactionStatuses : UpdateTransactionStatus(id, st)
    \/ \E id \in TxIds : MonitorTransaction(id)
    \/ CheckPendingTransactions

TransactionSpec == Init /\ [][TransactionNext]_vars

(***************************************************************************)
(* The timeout calculation of handleCreateEscrow                           *)
(***************************************************************************)
\* the runs of digits that group 3 of the create pattern captures
RECURSIVE DigitRuns(_)
DigitRuns(len) ==
    IF len = 0 THEN {}
    ELSE {<<d>> : d \in 0..9}
         \cup {Append(run, d) : run \in DigitRuns(len - 1), d \in 0..9}

\* the words that group 4 of the create pattern captures, the pattern being
\* case-insensitive
TimeUnits == {"hour", "hours", "day", "days", "Hours", "DAYS"}

\* handleCreateEscrow parses groups 3 and 4 and calculates timeoutBlocks
CalculateTimeout(digits, unit) ==
    /\ inv' = [messageId |-> inv.messageId, op |-> "timeoutBlocks",
               digits |-> digits, unit |-> unit,
               timeValue |-> parseInt(digits), timeUnit |-> toLowerCase(unit),
               timeoutBlocks |-> timeoutBlocks(parseInt(digits), toLowerCase(unit))]
    /\ UNCHANGED <<now, storeVars, users, contacts, transactions, escrows, contract, ledger>>

TimeoutNext == \E digits \in DigitRuns(MaxDigits), unit \in TimeUnits :
                   CalculateTimeout(digits, unit)

TimeoutSpec == Init /\ [][TimeoutNext]_vars

(***************************************************************************)
(* ContactService and its table; addContact is split at the await between  *)
(* its lookup and its insert                                               *)
(***************************************************************************)
\* (userPhone, contactName, contactStxAddress) of the addContact calls
AddContactInputs ==
    ({U1} \X {"john", "JOHN", "Joan"} \X {A1, A2}) \cup {<<U2, "john", A2>>}

\* the names updateContact is given
RenameInputs == {"john", "Joan"}

\* (userPhone, nameOrAddress) of the resolveRecipient calls
ResolveInputs ==
    ({U1} \X {"john", "John", "JOHN", "Joan", "Jo%", "Mary", A1, A2}) \cup {<<U2, "John">>}

\* addContact(userPhone, contactName, contactStxAddress) up to the insert
AddContactCheck(p, userPhone, contactName, contactStxAddress) ==
    LET normalizedName == normalizeContactName(contactName) IN
    /\ pc[p] = "idle"
    /\ IF \/ ~isValidAddress(contactStxAddress)
          \/ getContactByName(contacts, userPhone, normalizedName) # {}
       THEN /\ inv' = [op |-> "addContact", phoneNumber |-> userPhone,
                       name |-> normalizedName, at |-> "lookup", success |-> FALSE]
            /\ UNCHANGED <<pc, local>>
       ELSE /\ pc' = [pc EXCEPT ![p] = "add_insert"]
            /\ local' = [local EXCEPT ![p] = [op |-> "addContact", userPhone |-> userPhone,
                                              contactName |-> normalizedName,
                                              contactStxAddress |-> contactStxAddress]]
            /\ inv' = inv
    /\ UNCHANGED <<now, conversation_states, ret, users, contacts, transactions, escrows,
                   contract, ledger>>

\* addContact from the insert on
AddContactInsert(p) ==
    /\ pc[p] = "add_insert"
    /\ contacts' = insertContact(contacts, local[p].userPhone, local[p].contactName,
                                 local[p].contactStxAddress)
    /\ inv' = [op |-> "addContact", phoneNumber |-> local[p].userPhone,
               name |-> local[p].contactName, at |-> "insert",
               success |-> contacts' # contacts]
    /\ pc' = [pc EXCEPT ![p] = "idle"]
    /\ local' = [local EXCEPT ![p] = NoLocal]
    /\ UNCHANGED <<now, conversation_states, ret, users, transactions, escrows, contract, ledger>>

\* updateContact(contactId, {contact_name})
UpdateContact(contact, contactName) ==
    /\ contact \in contacts
    /\ contacts' = updateContact(contacts, contact, contactName)
    /\ inv' = [op |-> "updateContact", phoneNumber |-> contact.user_phone,
               name |-> normalizeContactName(contactName), success |-> contacts' # contacts]
    /\ UNCHANGED <<now, conversation_states, pc, local, ret, users, transactions, escrows,
                   contract, ledger>>

\* deleteContact(contactId)
DeleteContact(contact) ==
    /\ contact \in contacts
    /\ contacts' = deleteContact(contacts, contact)
    /\ inv' = [op |-> "deleteContact", phoneNumber |-> contact.user_phone,
               name |-> contact.contact_name, success |-> TRUE]
    /\ UNCHANGED <<now, conversation_states, pc, local, ret, users, transactions, escrows,
                   contract, ledger>>

\* resolveRecipient(userPhone, nameOrAddress) returns its value or throws
ResolveRecipient(userPhone, nameOrAddress) ==
    /\ inv' = [op |-> "resolveRecipient", phoneNumber |-> userPhone, name |-> nameOrAddress,
               success |-> resolveRecipientSucceeds(contacts, userPhone, <<nameOrAddress>>),
               result |-> IF resolveRecipientSucceeds(contacts, userPhone, <<nameOrAddress>>)
                          THEN resolveRecipient(contacts, userPhone, <<nameOrAddress>>)
                          ELSE [type |-> "error", address |-> None, name |-> None,
                                isContact |-> FALSE, phone |-> None]]
    /\ UNCHANGED <<now, conversation_states, pc, local, ret, users, contacts, transactions,
                   escrows, contract, ledger>>

ContactNext ==
    \/ \E p \in Procs, i \in AddContactInputs : AddContactCheck(p, i[1], i[2], i[3])
    \/ \E p \in Procs : AddContactInsert(p)
    \/ \E c \in contacts, n \in RenameInputs : UpdateContact(c, n)
    \/ \E c \in contacts : DeleteContact(c)
    \/ \E i \in ResolveInputs : ResolveRecipient(i[1], i[2])

ContactSpec == Init /\ [][ContactNext]_vars

(***************************************************************************)
(* Properties of the conversation state store (StoreSpec)                  *)
(***************************************************************************)
\* C8: a user whose only stored state expired in the past reads as having no
\* state: getState fails, hasActiveState is false and getStateType is null,
\* although the expired row is still in the table.
C8_ExpiredStateReadsAsNoState ==
    [][\A p \in Procs, u \in Phones :
          (/\ GetState(p, u)
           /\ RowsOf(conversation_states, u) # {}
           /\ \A r \in RowsOf(conversation_states, u) : r.expires_at < now)
          => (/\ ~ret'.success
              /\ ~ret'.hasActiveState
              /\ ret'.stateType = None
              /\ RowsOf(conversation_states', u) = RowsOf(conversation_states, u))]_vars

\* C8 witness: a getState call made now found no state while the caller's
\* expired row is still stored
C8_Witness ==
    /\ ret.op = "getState"
    /\ ret.at = now
    /\ ~ret.success /\ ~ret.hasActiveState /\ ret.stateType = None
    /\ \E r \in conversation_states : r.phone_number = ret.phoneNumber /\ r.expires_at < now

\* C9: every user has at most one non-expired state (indeed at most one row),
\* and a setState for a user who has an active state leaves exactly one row,
\* carrying the new type and payload.
C9_AtMostOneActiveState ==
    /\ [](\A u \in Phones : Cardinality(RowsOf(conversation_states, u)) <= 1)
    /\ [][\A p \in Procs, i \in SetInputs :
             (SetState(p, i[1], i[2], i[3]) /\ hasActiveState(conversation_states, i[1], now))
             => (/\ Cardinality(RowsOf(conversation_states', i[1])) = 1
                 /\ getState(conversation_states', i[1], now).success
                 /\ getState(conversation_states', i[1], now).state.stateType = i[2]
                 /\ getState(conversation_states', i[1], now).state.stateData = i[3])]_vars

\* C9 witness: a row created earlier was replaced by a setState made now
\* (created_at is older than the write that set expires_at), and it is the
\* user's only row
C9_Witness ==
    \E r \in conversation_states :
        /\ r.created_at < now
        /\ r.expires_at = now + TTL_MINUTES
        /\ r.state_type = "payment"
        /\ Cardinality(RowsOf(conversation_states, r.phone_number)) = 1

\* C10: operations on one user are linearizable.  Stated for the write that
\* ends an updateStateData call: whatever other calls completed since its
\* read, the write keeps every key the stored payload has at that moment
\* (changing only the keys it was given), and it does not bring back a state
\* that has been cleared.
C10_UpdateStateDataLinearizable ==
    [][\A p \in Procs :
          UpdateStateDataWrite(p) =>
            LET u == local[p].phoneNumber
                before == getState(conversation_states, u, now)
                after == getState(conversation_states', u, now)
            IN /\ before.success =>
                    /\ after.success
                    /\ \A k \in DOMAIN before.state.stateData :
                          /\ k \in DOMAIN after.state.stateData
                          /\ k \notin DOMAIN local[p].newData
                               => after.state.stateData[k] = before.state.stateData[k]
               /\ RowsOf(conversation_states, u) = {}
                    => RowsOf(conversation_states', u) = {}]_vars

\* the write that ends an updateStateData call of process p finds the user's
\* row exactly as the call's read left it (no other call changed it)
UpdateUndisturbed(p) ==
    /\ UpdateStateDataWrite(p)
    /\ \E r \in conversation_states :
          /\ RowsOf(conversation_states, local[p].phoneNumber) = {r}
          /\ r.state_type = local[p].currentState.stateType
          /\ r.state_data = local[p].currentState.stateData

\* the payload of the row is the old payload shallow-merged with the partial
\* one: every key of partial carries partial's value, every other old key
\* its old value, and there are no other keys
MergedFrom(row, old, partial) ==
    /\ DOMAIN row.state_data = (DOMAIN old.state_data) \cup (DOMAIN partial)
    /\ \A k \in DOMAIN partial : row.state_data[k] = partial[k]
    /\ \A k \in (DOMAIN old.state_data) \ (DOMAIN partial) :
          row.state_data[k] = old.state_data[k]

C12_UpdateWithoutStateFails ==
    [][\A p \in Procs, i \in UpdateInputs :
          (/\ UpdateStateDataRead(p, i[1], i[2])
           /\ \A r \in RowsOf(conversation_states, i[1]) : r.expires_at <= now)
          => (/\ ret'.op = "updateStateData"
              /\ ret'.phoneNumber = i[1]
              /\ ~ret'.success
              /\ pc' = pc
              /\ conversation_states' = conversation_states
              /\ \A r \in RowsOf(conversation_states', i[1]) : r.expires_at <= now)]_vars

\* C12 witness: an updateStateData call made now failed while the caller's
\* expired row is still stored, unchanged in its expiry, and no write is
\* pending
C12_Witness ==
    /\ ret.op = "updateStateData" /\ ~ret.success /\ ret.at = now
    /\ \E r \in conversation_states : r.phone_number = ret.phoneNumber /\ r.expires_at <= now
    /\ \A p \in Procs : pc[p] = "idle"

\* C13: for every stored conversation state, after any sequence of setState
\* and updateStateData calls, expiresAt equals the state's createdAt plus
\* exactly the ten-minute TTL.
C13_ExpiryIsCreatedPlusTTL ==
    \A r \in conversation_states : r.expires_at = r.created_at + TTL_MINUTES

(***************************************************************************)
(* Properties of registration (RegistrationSpec)                           *)
(***************************************************************************)
\* some account other than phoneNumber's holds the address
HeldByAnother(phoneNumber, stxAddress) ==
    \E r \in users : r.stx_address = stxAddress /\ r.phone_number # phoneNumber

\* C14: after any sequence of registrations and address updates, concurrent
\* ones included, no two accounts share an address; an unregistered user's
\* attempt to register an address another account holds fails with a conflict
\* error and creates no account, whether the address is found taken by the
\* handler's check or, after a race, by the insert; an address update to a
\* taken address fails likewise.  (A held address of the wrong length, which
\* only an address update can store, is refused by the format check first.)
C14_AddressesUnique ==
    /\ [](\A r1, r2 \in users : r1.stx_address = r2.stx_address => r1 = r2)
    /\ [][\A p \in Procs, i \in RegistrationCalls :
             (/\ RegistrationBegin(p, i[1], i[2])
              /\ \A r \in users : r.phone_number # i[1]
              /\ \E r \in RowsOf(conversation_states, i[1]) : r.expires_at > now
              /\ HeldByAnother(i[1], i[2]))
             => (/\ users' = users
                 /\ pc' = pc
                 /\ inv'.phoneNumber = i[1]
                 /\ ~inv'.result.success
                 /\ Shape(i[2]).length = 41
                      => inv'.result.error = "Address already registered")]_vars
    /\ [][\A p \in Procs :
             (/\ RegistrationCreate(p)
              /\ HeldByAnother(local[p].phoneNumber, local[p].cleanAddress))
             => (/\ users' = users
                 /\ ~inv'.result.success
                 /\ inv'.result.error \in {"STX address already registered",
                                           "Phone number already registered"})]_vars
    /\ [][\A i \in UpdateAddressInputs :
             (UpdateAddress(i[1], i[2]) /\ HeldByAnother(i[1], i[2]))
             => (/\ users' = users
                 /\ inv'.result = [success |-> FALSE,
                      error |-> "STX address already registered to another user"])]_vars

\* C14 witness: two users raced for one address; both calls passed the
\* handler's check, one insert created the account and the other user's
\* insert has just been rejected, so that user has no account
C14_Witness ==
    /\ inv.op = "handleRegistration"
    /\ inv.result = [success |-> FALSE, error |-> "STX address already registered"]
    /\ \A r \in users : r.phone_number # inv.phoneNumber
    /\ \E r \in users : <<r.stx_address>> = inv.text

\* C15: a registration attempt by a user who already has an account is
\* rejected with "User already registered" whatever address is supplied; the
\* accounts are left unchanged, no conversation state is created or changed
\* and no insert is started.
C15_RegisteredUserRejected ==
    [][\A p \in Procs, i \in RegistrationCalls :
          (/\ RegistrationBegin(p, i[1], i[2])
           /\ \E r \in users : r.phone_number = i[1])
          => (/\ users' = users
              /\ conversation_states' = conversation_states
              /\ pc' = pc
              /\ inv'.phoneNumber = i[1]
              /\ inv'.result = [success |-> FALSE, error |-> "User already registered"]
              /\ inv'.sent = <<[to |-> i[1], kind |-> "error_already_registered"]>>)]_vars

\* C15 witness: a user holding an account has just been rejected on supplying
\* an address other than the account's, and has no conversation state
C15_Witness ==
    /\ inv.op = "handleRegistration"
    /\ inv.result = [success |-> FALSE, error |-> "User already registered"]
    /\ \E r \in users : r.phone_number = inv.phoneNumber /\ <<r.stx_address>> # inv.text
    /\ RowsOf(conversation_states, inv.phoneNumber) = {}

\* the unregistered user's conversation state is active
AwaitingAddress(phoneNumber) ==
    /\ \A r \in users : r.phone_number # phoneNumber
    /\ \E r \in RowsOf(conversation_states, phoneNumber) : r.expires_at > now

\* C17: in the awaiting-address step a message that fails the address format
\* check creates no account and leaves the registration state as it is, even
\* when an account holds that very text as its address (the format check comes
\* before the address-already-registered check, which would clear the state);
\* a valid address that no account holds then passes every check and, unless
\* another call gets in first, the insert creates the account.
C17_InvalidAddressKeepsState ==
    /\ [][\A p \in Procs, i \in RegistrationCalls :
             (/\ RegistrationBegin(p, i[1], i[2])
              /\ AwaitingAddress(i[1])
              /\ Shape(i[2]).length # 41)
             => (/\ users' = users
                 /\ conversation_states' = conversation_states
                 /\ pc' = pc
                 /\ inv'.result = [success |-> FALSE, error |-> "invalid address"]
                 /\ inv'.sent = <<[to |-> i[1], kind |-> "error_invalid_address"]>>)]_vars
    /\ [][\A p \in Procs, i \in RegistrationCalls :
             (/\ RegistrationBegin(p, i[1], i[2])
              /\ AwaitingAddress(i[1])
              /\ Shape(i[2]).length = 41
              /\ \A r \in users : r.stx_address # i[2])
             => (/\ pc'[p] = "reg_create"
                 /\ local'[p].cleanAddress = i[2]
                 /\ users' = users)]_vars
    /\ [][\A p \in Procs :
             (/\ RegistrationCreate(p)
              /\ \A r \in users : /\ r.phone_number # local[p].phoneNumber
                                  /\ r.stx_address # local[p].cleanAddress)
             => (/\ users' = users \cup {[phone_number |-> local[p].phoneNumber,
                                         stx_address |-> local[p].cleanAddress]}
                 /\ inv'.result.success
                 /\ RowsOf(conversation_states', local[p].phoneNumber) = {})]_vars

\* C17 witness: a user awaiting the address has just been told the address is
\* invalid, although another account holds that text as its address; the
\* user has no account and the registration state is still active
C17_Witness ==
    /\ inv.op = "handleRegistration"
    /\ inv.result = [success |-> FALSE, error |-> "invalid address"]
    /\ AwaitingAddress(inv.phoneNumber)
    /\ \E r \in RowsOf(conversation_states, inv.phoneNumber) : r.state_type = "registration"
    /\ \E r \in users : <<r.stx_address>> = inv.text

(***************************************************************************)
(* Properties of the webhook's registration routing (Spec)                 *)
(***************************************************************************)
\* C16: when an unregistered user sends a message consisting of a valid
\* address that no account holds, the processing of that message creates an
\* account for that user with exactly that address.
C16_AddressMessageCreatesAccount ==
    [][\A i \in MessageInputs :
          (/\ ProcessMessage(i[1], i[2])
           /\ Len(i[2]) = 1
           /\ validateStxAddress(i[2][1])
           /\ ~exists(users, i[1])
           /\ ~addressExists(users, i[2][1]))
          => users' = users \cup {[phone_number |-> i[1], stx_address |-> i[2][1]]}]_vars

\* C18: every message other than exactly "help" or "menu" from a user who
\* has no account is routed to the registration handler and never reaches the
\* payment or the escrow handler.
C18_NoAccountRoutesToRegistration ==
    [][\A i \in MessageInputs :
          (/\ ProcessMessage(i[1], i[2])
           /\ \A r \in users : r.phone_number # i[1]
           /\ Normalize(i[2]) \notin {<<"help">>, <<"menu">>})
          => inv'.route = "registration"]_vars

(***************************************************************************)
(* Properties of the validation before staging (Spec)                      *)
(***************************************************************************)
\* the message is a send or escrow command whose amount token is not a
\* number or is a number <= 0
BadAmount(messageText) ==
    /\ Len(messageText) >= 2
    /\ Normalize(messageText)[1] \in {"send", "escrow"}
    /\ \/ Normalize(messageText)[2] \notin DOMAIN NumberValue
       \/ NumberValue[Normalize(messageText)[2]] <= 0

\* C19: no confirmation is ever staged for a non-positive or non-numeric
\* amount: for every send or escrow-create message whose amount is <= 0 or not
\* a number, parsing fails to match (non-numeric) or the amount check rejects
\* it (numeric), the user is told so, and the conversation states are left as
\* they were.  (A delivery is the step that advances inv.messageId.)
C19_BadAmountNeverStaged ==
    [][(inv'.messageId # inv.messageId /\ BadAmount(inv'.text))
          => (/\ conversation_states' = conversation_states
              /\ inv'.result =
                   IF Normalize(inv'.text)[2] \in DOMAIN NumberValue
                   THEN Fail("amount_not_positive")
                   ELSE Fail("invalid_format")
              /\ inv'.sent = <<[to |-> inv'.phoneNumber,
                                kind |-> inv'.result.message]>>)]_vars

\* C19 witness: "send 0 to John" has just been rejected by the amount check
\* while the user's staged escrow confirmation is still stored and active
C19_Witness ==
    /\ inv.op = "processMessage"
    /\ inv.text = <<"send", "0", "to", "John">>
    /\ inv.result = Fail("amount_not_positive")
    /\ inv.found = "escrow"
    /\ \E r \in RowsOf(conversation_states, inv.phoneNumber) :
          r.state_type = "escrow" /\ r.expires_at > now

\* C20: a confirm_send confirmation is staged only if the sender's balance is
\* at least amount plus estimated fee and the recipient resolves; when the
\* balance is too low the registered sender is told "insufficient balance",
\* when the balance suffices and the recipient is unknown the sender is told
\* "recipient not found", and in both cases no state is staged or modified.
C20_SendChecksBalanceAndRecipient ==
    [][(/\ inv'.messageId # inv.messageId
        /\ sendMatch(inv'.text) # 0
        /\ NumberValue[Normalize(inv'.text)[2]] > 0
        /\ \E r \in users : r.phone_number = inv'.phoneNumber)
          => LET account == CHOOSE r \in users : r.phone_number = inv'.phoneNumber
                 needed == stxToMicroStx(NumberValue[Normalize(inv'.text)[2]]) + MediumFee
                 recipientInput == SubSeq(inv'.text, sendMatch(inv'.text) + 1,
                                          Len(inv'.text))
             IN IF LedgerBalance[account.stx_address] < needed
                THEN /\ inv'.result = Fail("insufficient_balance")
                     /\ conversation_states' = conversation_states
                ELSE IF ~resolveRecipientSucceeds(contacts, inv'.phoneNumber, recipientInput)
                THEN /\ inv'.result = Fail("recipient_not_found")
                     /\ conversation_states' = conversation_states
                ELSE TRUE]_vars

(***************************************************************************)
(* Properties of the escrow contract and the escrow commands (EscrowSpec)  *)
(***************************************************************************)
\* the escrow the contract holds under id has the given status
ChainStatus(c, id, status) == id \in DOMAIN c.escrows /\ c.escrows[id].status = status

\* the principal is the sender or the recipient of the escrow the contract holds
IsParty(c, id, a) ==
    id \in DOMAIN c.escrows /\ a \in {c.escrows[id].sender, c.escrows[id].recipient}

\* the principal is the sender of the escrow the contract holds
IsSender(c, id, a) == id \in DOMAIN c.escrows /\ a = c.escrows[id].sender

\* the local records the command's author may act on: those that carry the
\* escrow id of the command, are active and name the author in a role
Actionable(phoneNumber, id, roles) ==
    {e \in escrows : /\ e.contract_escrow_id = id
                     /\ e.status = "active"
                     /\ \/ "sender" \in roles /\ e.sender_phone = phoneNumber
                        \/ "recipient" \in roles /\ e.recipient_phone = phoneNumber}

\* the step delivers a command that starts with the verb
Delivers(verb) ==
    /\ inv'.messageId # inv.messageId
    /\ inv'.op = "processMessage"
    /\ Normalize(inv'.text)[1] = verb

\* the step is a call of one of the contract functions or service methods
Calls(ops) == inv' # inv /\ inv'.op \in ops

\* the call was answered with an error (contract) or threw (service)
Rejected == IF "ok" \in DOMAIN inv' THEN ~inv'.ok ELSE ~inv'.success

\* the delivery answers with a refusal and leaves every table, the state
\* store and the contract as they were
RefusedUnchanged ==
    /\ ~inv'.result.success
    /\ Len(inv'.sent) = 1
    /\ UNCHANGED <<conversation_states, escrows, contract, transactions>>

TimeoutReached(c, id, t) ==
    id \in DOMAIN c.escrows /\ BlockHeight(t) >= c.escrows[id].timeout_height

EscrowStatusMoves ==
    {<<"pending", "active">>, <<"active", "released">>, <<"active", "refunded">>,
     <<"active", "cancelled">>}

\* C24: the status of an Escrow record changes only from pending to active or
\* from active to released, refunded or cancelled; a record that is released,
\* refunded or cancelled keeps its status.
C24_EscrowStatusMonotonic ==
    [][\A e \in escrows : \A f \in escrows' :
          (f.id = e.id /\ f.status # e.status)
             => <<e.status, f.status>> \in EscrowStatusMoves]_vars

\* the record with the local id is in the table with the status
RecordStatus(k, status) == \E e \in escrows : e.id = k /\ e.status = status

\* C25: an Escrow record that createEscrow saved as pending, and whose escrow
\* the contract holds, eventually has the status active.
C25_PendingEventuallyActive ==
    \A k \in 1..MaxEscrows :
        (RecordStatus(k, "pending") /\ contract.nonce >= k) ~> RecordStatus(k, "active")

\* the public functions that settle an escrow
SettlingCalls == {"release-escrow", "refund-escrow", "cancel-escrow"}

\* the sum of the amounts of the escrows with the given ids
RECURSIVE AmountOf(_, _)
AmountOf(c, ids) ==
    IF ids = {} THEN 0
    ELSE LET id == CHOOSE x \in ids : TRUE
         IN c.escrows[id].amount + AmountOf(c, ids \ {id})

\* the STX the contract owes to its active escrows
Owed(c) == AmountOf(c, {id \in DOMAIN c.escrows : c.escrows[id].status = "active"})

\* C26: on the contract, a release, refund or cancel call succeeds only on an
\* active escrow, makes it not active and pays its amount out once; an escrow
\* that is not active is never changed again and every later call on it is
\* answered with an error and changes nothing, so of all the calls on one
\* escrow at most one succeeds; the contract holds exactly the amounts of its
\* active escrows.
C26_AtMostOneSettlement ==
    [][/\ \A id \in DOMAIN contract.escrows :
             ~ChainStatus(contract, id, "active")
                => contract'.escrows[id] = contract.escrows[id]
       /\ (Calls(SettlingCalls) /\ inv'.ok)
             => /\ ChainStatus(contract, inv'.escrowId, "active")
                /\ ~ChainStatus(contract', inv'.escrowId, "active")
                /\ contract'.balance
                     = contract.balance - contract.escrows[inv'.escrowId].amount
       /\ (Calls(SettlingCalls) /\ ~ChainStatus(contract, inv'.escrowId, "active"))
             => ~inv'.ok /\ contract' = contract
       /\ contract'.balance = Owed(contract')]_vars

\* a party's call on an escrow that was settled before was answered with an
\* error, and the contract holds nothing
C26_Witness ==
    /\ inv.op \in SettlingCalls
    /\ ~inv.ok
    /\ IsParty(contract, inv.escrowId, inv.txSender)
    /\ contract.escrows[inv.escrowId].status \in {"released", "refunded", "cancelled"}
    /\ inv.value \in {err_already_released, err_already_refunded}
    /\ contract.balance = 0

(***************************************************************************)
(* Properties of the Transaction records (TransactionSpec)                 *)
(***************************************************************************)
\* C27: the status of a Transaction record changes only from pending to
\* confirmed or from pending to failed, whatever monitor runs and status
\* updates happen and in whatever order.
C27_TransactionStatusMonotonic ==
    [][\A r \in transactions : \A q \in transactions' :
          (q.tx_id = r.tx_id /\ q.status # r.status)
             => r.status = "pending" /\ q.status \in {"confirmed", "failed"}]_vars

(***************************************************************************)
(* Properties of the timeout calculation (TimeoutSpec)                     *)
(***************************************************************************)
\* the number a run of digits writes, digit by digit from the left
RECURSIVE Written(_, _)
Written(digits, acc) ==
    IF digits = <<>> THEN acc ELSE Written(Tail(digits), 10 * acc + Head(digits))

\* C28: for a create command that gives the time as n hour or n hours the
\* timeout is n * 6 blocks, and for n day or n days it is n * 144 blocks, n
\* being the number the digits of the command write.
C28_TimeoutBlocks ==
    inv.op = "timeoutBlocks"
       => LET n == Written(inv.digits, 0) IN
          /\ inv.unit \in {"hour", "hours", "Hours"} => inv.timeoutBlocks = n * 6
          /\ inv.unit \in {"day", "days", "DAYS"} => inv.timeoutBlocks = n * 144

\* "7 days" was calculated as 1008 blocks
C28_Witness ==
    /\ inv.op = "timeoutBlocks"
    /\ inv.digits = <<7>>
    /\ inv.unit = "days"
    /\ inv.timeoutBlocks = 1008

(***************************************************************************)
(* Ownership of the conversation state (CommandSpec)                       *)
(***************************************************************************)
\* the step is a run of one of the routers: a handleRegistration call or a
\* delivery that the webhook routed
RouterStep == inv' # inv /\ inv'.op \in {"handleRegistration", "processMessage"}

\* the state type that the router of the step owns
RouterOf(i) == IF i.op = "handleRegistration" THEN "registration" ELSE i.route

\* C29: a run of a router leaves every stored state that has not expired and
\* whose type belongs to another router as it was: it neither replaces nor
\* clears it.
C29_StateOwnedByItsRouter ==
    [][RouterStep
         => \A r \in conversation_states :
               (r.expires_at > now /\ r.state_type # RouterOf(inv'))
                  => r \in conversation_states']_vars

(***************************************************************************)
(* Failure replies of the webhook (Spec)                                   *)
(***************************************************************************)
\* the delivery took a failure path: the help text could not be built, or the
\* router answered with a failure
DeliveryFailed ==
    IF inv'.route = "help" THEN sendHelpMessageThrows(users, inv'.phoneNumber)
    ELSE "success" \in DOMAIN inv'.result /\ ~inv'.result.success

\* C30: a delivery that takes a failure path sends exactly one message, and
\* sends it to the author of the inbound message.
C30_FailureSendsExactlyOne ==
    [][(/\ inv'.messageId # inv.messageId
        /\ inv'.op = "processMessage"
        /\ DeliveryFailed)
          => /\ Len(inv'.sent) = 1
             /\ inv'.sent[1].to = inv'.phoneNumber]_vars

(***************************************************************************)
(* Replies of the webhook to recognized input (Spec)                       *)
(***************************************************************************)
\* the delivered text is a command of the help menu, or answers a pending
\* confirmation
RecognizedInput ==
    LET normalizedMessage == Normalize(inv'.text) IN
    \/ normalizedMessage \in {<<"help">>, <<"menu">>, <<"balance">>, <<"my", "escrows">>}
    \/ StartsWith(normalizedMessage, <<"send">>)
    \/ StartsWith(normalizedMessage, <<"add", "contact">>)
    \/ StartsWith(normalizedMessage, <<"register">>)
    \/ IsEscrowCommand(normalizedMessage)
    \/ /\ inv'.found # None
       /\ normalizedMessage \in {<<"yes">>, <<"no">>}

\* C31: every delivery of a recognized command, or of a reply to a pending
\* confirmation, sends at least one message to the user; no path ends silently.
C31_RecognizedInputAnswered ==
    [][(/\ inv'.messageId # inv.messageId
        /\ inv'.op = "processMessage"
        /\ RecognizedInput)
          => \E k \in 1..Len(inv'.sent) : inv'.sent[k].to = inv'.phoneNumber]_vars

\* C32: a delivery of exactly help or menu is answered with the help text,
\* whatever the user's registration status and whatever state is active, and
\* leaves the conversation states as they were.
C32_HelpAlwaysAnswered ==
    [][(/\ inv'.messageId # inv.messageId
        /\ inv'.op = "processMessage"
        /\ Normalize(inv'.text) \in {<<"help">>, <<"menu">>})
          => /\ Len(inv'.sent) = 1
             /\ inv'.sent[1].to = inv'.phoneNumber
             /\ inv'.sent[1].kind \in {"help_new_user", "help_registered"}
             /\ conversation_states' = conversation_states]_vars

(***************************************************************************)
(* Routing of commands by the webhook (RoutingSpec)                        *)
(***************************************************************************)
\* the messages delivered to the webhook: escrow commands by prefix, by
\* containment and by equality, payment commands, and texts no router knows
RoutingMessages ==
    {<<"escrow", "5", "to", "John", "for", "24", "hours">>, <<"escrow", "5", "status">>,
     <<"release", "escrow", "#1">>, <<"refund", "escrow", "#1">>,
     <<"cancel", "escrow", "#1">>, <<"escrow", "status", "#1">>,
     <<"show", "escrow", "status", "#1">>, <<"my", "escrows">>, <<"escrows">>,
     <<"balance">>, <<"send", "5", "to", "John">>, <<"contacts">>, <<"maybe">>,
     <<"release", "#1">>, <<"help">>, <<"register">>}

RoutingNext ==
    \/ Tick
    \/ \E i \in RegistrationInputs : HandleRegistration(i[1], i[2])
    \/ \E u \in Phones, m \in RoutingMessages : ProcessMessage(u, m)

RoutingSpec == Init /\ [][RoutingNext]_vars

\* the escrow-command shapes: escrow..., release/refund/cancel escrow...,
\* ...escrow status..., my escrows, escrows
EscrowShaped(text) ==
    LET n == Normalize(text)
        escrowWord(k) == k <= Len(n) /\ n[k] \in {"escrow", "escrows"}
    IN \/ escrowWord(1)
       \/ n[1] \in {"release", "refund", "cancel"} /\ escrowWord(2)
       \/ \E k \in 1..(Len(n) - 1) : n[k] = "escrow" /\ n[k + 1] = "status"
       \/ n = <<"my", "escrows">>

\* the delivery reached the routers: a registered user without an active
\* state sent something that is neither help nor a registration command
Routed ==
    /\ inv'.messageId # inv.messageId
    /\ inv'.op = "processMessage"
    /\ \E u \in users : u.phone_number = inv'.phoneNumber
    /\ inv'.found = None
    /\ Normalize(inv'.text) \notin {<<"help">>, <<"menu">>}
    /\ Normalize(inv'.text)[1] # "register"

\* C33: for a registered user with no active state, a message of an escrow
\* shape is handled by the Escrow Router and never by the Payment Router, every
\* other message by the Payment Router, and a router's no-match is answered
\* with the unknown-command response.
C33_RoutingByShape ==
    [][Routed =>
          /\ inv'.route = IF EscrowShaped(inv'.text) THEN "escrow" ELSE "payment"
          /\ "null" \in DOMAIN inv'.result
                => inv'.sent = <<[to |-> inv'.phoneNumber, kind |-> "unknown_command"]>>]_vars

\* a registered user's text that the Escrow Router does not know was answered
\* with the unknown-command response
C33_Witness ==
    /\ inv.op = "processMessage"
    /\ \E u \in users : u.phone_number = inv.phoneNumber
    /\ inv.text = <<"escrow", "5", "status">>
    /\ inv.route = "escrow"
    /\ "null" \in DOMAIN inv.result
    /\ inv.sent = <<[to |-> inv.phoneNumber, kind |-> "unknown_command"]>>

(***************************************************************************)
(* Properties of the contacts (ContactSpec)                                *)
(***************************************************************************)
\* the caller's own contacts whose name equals the token case-insensitively
OwnContactsNamed(userPhone, token) ==
    {c \in contacts : /\ c.user_phone = userPhone
                      /\ toLowerCase(c.contact_name) = toLowerCase(token)}

\* C34: resolveRecipient returns a token of the address format itself as type
\* address; otherwise the address of the caller's own contact whose name
\* equals the token case-insensitively and exactly; otherwise it fails.
C34_ResolveExactOrFail ==
    [][(inv' # inv /\ inv'.op = "resolveRecipient") =>
          IF isValidAddress(inv'.name)
          THEN /\ inv'.success
               /\ inv'.result.type = "address"
               /\ inv'.result.address = inv'.name
          ELSE IF OwnContactsNamed(inv'.phoneNumber, inv'.name) # {}
          THEN /\ inv'.success
               /\ inv'.result.type = "contact"
               /\ \E c \in OwnContactsNamed(inv'.phoneNumber, inv'.name) :
                     inv'.result.address = c.contact_stx_address
          ELSE ~inv'.success]_vars

\* C35: whatever add, update and delete operations a user's requests perform,
\* concurrent addContact calls included, no two of that user's contacts have
\* names that are equal case-insensitively.
C35_ContactNamesUnique ==
    \A c1, c2 \in contacts :
        (/\ c1.user_phone = c2.user_phone
         /\ toLowerCase(c1.contact_name) = toLowerCase(c2.contact_name)) => c1 = c2

\* an addContact call passed its lookup, lost the race to a concurrent call
\* for the same name and was refused at its insert
C35_Witness ==
    /\ inv.op = "addContact"
    /\ inv.at = "insert"
    /\ ~inv.success
    /\ \E c \in contacts : c.user_phone = inv.phoneNumber /\ c.contact_name = inv.name

(***************************************************************************)
(* Replies to a confirmation that has expired (ExpirySpec)                 *)
(***************************************************************************)
\* (phoneNumber, messageText) of the replies delivered to the webhook
ReplyInputs == {U1, U2} \X {<<"yes">>, <<"YES">>, <<"no">>}

ExpiryNext ==
    \/ Tick
    \/ \E i \in StagedInputs : SetState("p1", i[1], i[2], i[3])
    \/ \E i \in ReplyInputs : ProcessMessage(i[1], i[2])

ExpirySpec == Init /\ [][ExpiryNext]_vars

\* the user's staged confirmation has expired and its row is still stored
ExpiredStaged(phoneNumber) ==
    /\ RowsOf(conversation_states, phoneNumber) # {}
    /\ \A r \in RowsOf(conversation_states, phoneNumber) :
          r.state_type \in {"payment", "escrow"} /\ r.expires_at <= now

\* what the webhook does with the same message when the user has no row
AsIfNeverStaged ==
    processMessage(World(DeleteRows(conversation_states, inv'.phoneNumber), contacts,
                         transactions, escrows, contract),
                   users, inv'.phoneNumber, inv'.text, now)

\* C36: a "yes" delivered after the staged confirmation has expired executes
\* nothing: no handler sees a state, no record and nothing on chain changes,
\* and the reply is the one given when no confirmation was ever staged.
C36_ExpiredYesExecutesNothing ==
    [][(/\ inv'.messageId # inv.messageId
        /\ inv'.op = "processMessage"
        /\ Normalize(inv'.text) = <<"yes">>
        /\ ExpiredStaged(inv'.phoneNumber))
          => /\ ~inv'.observed
             /\ ~inv'.stateFlow
             /\ UNCHANGED <<transactions, escrows, contract, ledger>>
             /\ inv'.result = AsIfNeverStaged.result
             /\ inv'.sent = AsIfNeverStaged.w.sent]_vars

\* a "yes" was delivered after the confirmation staged for its author expired
C36_Witness ==
    /\ inv.op = "processMessage"
    /\ Normalize(inv.text) = <<"yes">>
    /\ ExpiredStaged(inv.phoneNumber)
    /\ inv.found = None
    /\ inv.sent # <<>>

(***************************************************************************)
(* The Escrow records against the contract (MirrorSpec)                    *)
(***************************************************************************)
\* A1 calls (create-escrow A2 u5000000 u1 memo)
ContractCreate ==
    /\ contract.nonce <= MaxEscrows
    /\ \E r \in {create_escrow(contract, A1, A2, stxToMicroStx(5), 1, BlockHeight(now))} :
          /\ contract' = r.contract
          /\ inv' = Called("create-escrow", A1, contract.nonce, r)
    /\ UNCHANGED <<now, storeVars, users, contacts, transactions, escrows, ledger>>

MirrorNext ==
    \/ Tick
    \/ ContractCreate
    \/ \E id \in EscrowIds : SaveEscrowToDatabase(id)
    \/ \E id \in EscrowIds, a \in {A1, A2} : ReleaseEscrow(id, a)
    \/ \E id \in EscrowIds, a \in {A1, A2} : RefundEscrow(id, a)
    \/ \E id \in EscrowIds, a \in {A1, A2} : CancelEscrow(id, a)

MirrorSpec == Init /\ [][MirrorNext]_vars

\* C37: whenever the local Escrow record of an escrow the contract holds has
\* the status released, refunded or cancelled, the escrow the contract holds
\* under the record's contract id has that status.
C37_LocalMirrorsChain ==
    \A e \in escrows :
        (/\ e.contract_escrow_id \in DOMAIN contract.escrows
         /\ e.status \in {"released", "refunded", "cancelled"})
            => ChainStatus(contract, e.contract_escrow_id, e.status)

(***************************************************************************)
(* The escrow id announced at creation (EscrowSpec)                        *)
(***************************************************************************)
\* C38: the escrow id announced when an escrow is created identifies that
\* escrow in later commands: for its sender and for its recipient, a command
\* with that id is looked up to the record that was created and to no other.
C38_AnnouncedIdFindsEscrow ==
    [][(inv' # inv /\ inv'.op = "createEscrow" /\ inv'.success)
          => \A phoneNumber \in {U1, U2} :
                findEscrow(escrows', phoneNumber, inv'.announced) = escrows' \ escrows]_vars

(***************************************************************************)
(* The STX of the contract (EscrowSpec)                                    *)
(***************************************************************************)
\* the step pays the escrow's amount to the payee and nothing to anyone else
PaidOut(id, payee) ==
    \A a \in Principals :
        ReceivedBy(contract', a)
            = ReceivedBy(contract, a) + IF a = payee THEN contract.escrows[id].amount ELSE 0

\* C39: whatever calls succeed or fail, the contract holds exactly the sum of
\* the amounts of its active escrows; an escrow that becomes released pays its
\* amount to its recipient, one that becomes refunded or cancelled pays it to
\* its sender, and nothing is paid when no escrow changes its status.
C39_HoldingsAndPayouts ==
    [][/\ contract.balance = Owed(contract)
       /\ contract'.balance = Owed(contract')
       /\ \A id \in DOMAIN contract.escrows :
             /\ contract'.escrows[id].amount = contract.escrows[id].amount
             /\ (ChainStatus(contract, id, "active") /\ ChainStatus(contract', id, "released"))
                   => PaidOut(id, contract.escrows[id].recipient)
             /\ (/\ ChainStatus(contract, id, "active")
                 /\ contract'.escrows[id].status \in {"refunded", "cancelled"})
                   => PaidOut(id, contract.escrows[id].sender)
       /\ (\A id \in DOMAIN contract.escrows :
              contract'.escrows[id].status = contract.escrows[id].status)
             => \A a \in Principals : ReceivedBy(contract', a) = ReceivedBy(contract, a)]_vars

\* an escrow was cancelled and a later cancel-escrow was refused: its sender
\* has its amount back once and the contract holds nothing
C39_Witness ==
    /\ ChainStatus(contract, 0, "cancelled")
    /\ ReceivedBy(contract, contract.escrows[0].sender) = contract.escrows[0].amount
    /\ ReceivedBy(contract, contract.escrows[0].recipient) = 0
    /\ contract.balance = 0
    /\ inv.op = "cancel-escrow"
    /\ ~inv.ok

(***************************************************************************)
(* Registered addresses used as recipients (AddressSpec)                   *)
(***************************************************************************)
\* (phoneNumber, messageBody) of the handleRegistration calls: a mainnet
\* address, a testnet address and one that is a character short
AddressInputs == {U1, U2} \X {A1, ATest, AShort}

AddressNext ==
    \/ Tick
    \/ \E i \in AddressInputs : HandleRegistration(i[1], i[2])

AddressSpec == Init /\ [][AddressNext]_vars

\* C40: every address that registration accepted as a user's address is
\* accepted by isValidAddress, is resolved as an address by resolveRecipient
\* for any caller, and is accepted by createEscrow as the recipient.
C40_RegisteredAddressUsable ==
    \A u \in users :
        /\ isValidAddress(u.stx_address)
        /\ \A p \in Phones :
              /\ resolveRecipientSucceeds(contacts, p, <<u.stx_address>>)
              /\ resolveRecipient(contacts, p, <<u.stx_address>>).type = "address"
        /\ createEscrow(escrows, contract, A1, u.stx_address, stxToMicroStx(5), 1,
                        U1, None, now).success

(***************************************************************************)
(* Properties of the confirmation flow (Spec)                              *)
(***************************************************************************)
\* the user is registered
Registered(u) == exists(users, u)

\* the user has a non-expired payment or escrow state
Staged(u) == getStateType(conversation_states, u, now) \in {"payment", "escrow"}

\* a financial action happens in this step: a transfer is recorded or an
\* escrow is created or changed
FinancialAction == transactions' # transactions \/ escrows' # escrows

\* C1: when "yes" is delivered twice for a staged action, only one delivery
\* observes the state: a "yes" that follows a "yes" which found the user's
\* payment or escrow state, with the store as that delivery left it, finds
\* no state, and it performs nothing.
C1_YesConsumesStagedAction ==
    [][\A u \in Phones, m \in Messages :
          (/\ ProcessMessage(u, m)
           /\ Registered(u)
           /\ Normalize(m) = <<"yes">>
           /\ inv.op = "processMessage"
           /\ inv.phoneNumber = u
           /\ Normalize(inv.text) = <<"yes">>
           /\ inv.found \in {"payment", "escrow"}
           /\ inv.observed
           /\ RowsOf(conversation_states, u) = inv.left)
          => (~inv'.observed /\ ~FinancialAction)]_vars

\* C3: a "no" to a staged action clears the user's conversation state and
\* moves no funds and creates no record.
C3_NoClearsStagedAction ==
    [][\A u \in Phones, m \in Messages :
          (ProcessMessage(u, m) /\ Registered(u) /\ Normalize(m) = <<"no">> /\ Staged(u))
          => (/\ ~hasActiveState(conversation_states', u, now)
              /\ ~FinancialAction)]_vars

\* C4: "send 5 to John" from a registered user with contact John = A1 stages
\* a payment state with step confirm_send, amount 5 and recipient address A1;
\* a "yes" to a staged payment records one transaction, clears the state and
\* sends the success message.
C4_SendStagesAndYesExecutes ==
    [][\A u \in Phones :
          /\ (/\ ProcessMessage(u, <<"send", "5", "to", "John">>)
              /\ Registered(u)
              /\ \E c \in contacts : /\ c.user_phone = u /\ c.contact_name = "John"
                                     /\ c.contact_stx_address = A1)
             => LET staged == getState(conversation_states', u, now) IN
                /\ staged.success
                /\ staged.state.stateType = "payment"
                /\ Get(staged.state.stateData, "step") = "confirm_send"
                /\ "amount" \in DOMAIN staged.state.stateData
                /\ staged.state.stateData.amount = 5
                /\ "recipient" \in DOMAIN staged.state.stateData
                /\ staged.state.stateData.recipient.address = A1
          /\ (/\ ProcessMessage(u, <<"yes">>)
              /\ Registered(u)
              /\ getStateType(conversation_states, u, now) = "payment")
             => (/\ Cardinality(transactions') = Cardinality(transactions) + 1
                 /\ ~hasActiveState(conversation_states', u, now)
                 /\ \E k \in 1..Len(inv'.sent) :
                       inv'.sent[k] = [to |-> u, kind |-> "payment_sent"])]_vars

\* C5: while a registered user has a non-expired payment or escrow state,
\* every message other than help or menu goes to the state flow of the router
\* the state belongs to.
C5_StateOwnsRouting ==
    [][\A u \in Phones, m \in Messages :
          (/\ ProcessMessage(u, m)
           /\ Registered(u)
           /\ Staged(u)
           /\ Normalize(m) \notin {<<"help">>, <<"menu">>})
          => (/\ inv'.route = getStateType(conversation_states, u, now)
              /\ inv'.stateFlow)]_vars

\* C6: a "yes" to a staged action either performs it or, when execution
\* fails, sends a failure message; in both cases the state is cleared.
C6_YesNeverLeavesStateStaged ==
    [][\A u \in Phones, m \in Messages :
          (ProcessMessage(u, m) /\ Registered(u) /\ Normalize(m) = <<"yes">> /\ Staged(u))
          => (/\ ~hasActiveState(conversation_states', u, now)
              /\ \/ FinancialAction
                 \/ \E k \in 1..Len(inv'.sent) :
                       /\ inv'.sent[k].to = u
                       /\ inv'.sent[k].kind \in {"payment_failed", "escrow_failed"})]_vars

\* C7: while a confirmation is pending, a message that is neither "yes" nor
\* "no" (nor help or menu) produces only the re-prompt and changes nothing.
C7_OtherTextOnlyReprompts ==
    [][\A u \in Phones, m \in Messages :
          (/\ ProcessMessage(u, m)
           /\ Registered(u)
           /\ Staged(u)
           /\ Normalize(m) \notin {<<"yes">>, <<"no">>, <<"help">>, <<"menu">>})
          => (/\ inv'.sent = <<[to |-> u, kind |-> "reprompt"]>>
              /\ conversation_states' = conversation_states
              /\ contacts' = contacts
              /\ ~FinancialAction)]_vars

=============================================================================
